---- MODULE Spec2Model ----
(***************************************************************************)
(* Research landscape analyzer: deterministic scoring engine               *)
(* (src/analysis/scoring.py), narrative enrichment (src/analysis/          *)
(* llm_client.py), the pipeline that drives them and builds the search     *)
(* queries (src/pipeline.py), its callers (src/cli.py, src/api.py), the    *)
(* encoder's model cache (src/embeddings/encoder.py), the ranker and its   *)
(* concept extractor (src/embeddings/similarity.py) and the paginated,     *)
(* deduplicating search (src/scraper/dimensions.py).                       *)
(*                                                                         *)
(* Specifications: Spec (a pipeline run), SpecScoring (the scoring         *)
(* functions over their arguments), SpecEncoder (get_model called from     *)
(* several threads), SpecRank (rank_publications and the landscape map     *)
(* over their arguments), SpecJoin (the enrichment join over ranked        *)
(* results and parsed responses), SpecSearch (search_all over the results  *)
(* of its queries), SpecProposal (_extract_concepts and                    *)
(* generate_search_queries over proposals), SpecScrape (search over the    *)
(* answers of the pages it fetches), SpecEntry (a pipeline run and the     *)
(* callers that unpack what it returns).                                   *)
(*                                                                         *)
(* Numbers.  A similarity score is an integer number of 1/10000ths         *)
(* (0.4499 is 4499, 0.60 is 6000).  A confidence is an integer number of   *)
(* hundredths (0.90 is 90); before rounding it is carried exactly in       *)
(* "ticks" of 1/90000, the common denominator of every term of             *)
(* compute_confidence (0.01 is 900 ticks).                                 *)
(***************************************************************************)
EXTENDS Integers, Sequences, FiniteSets

VARIABLES
    pc,                  \* position of the run
    api_key,             \* whether ANTHROPIC_API_KEY is set
    proposal_branch,     \* proposal.military_branch.value
    publications,        \* what search_all returned
    similarity_results,  \* list[SimilarityResult]
    overlap_ratings,     \* list[str], parallel to similarity_results
    verdict,             \* Verdict
    confidence,          \* hundredths
    response_text,       \* message.content[0].text
    report,              \* the AnalysisReport returned
    raw_similarities,    \* RankingResult.similarities, one per publication
    landscape_map,       \* the points returned by run_pipeline
    raised,              \* the exception that left the run, or "none"
    _model,              \* encoder._model
    _model_name,         \* encoder._model_name
    threads,             \* the callers of get_model: position and locals
    logged,              \* what get_model has logged, by message
    loaded_models,       \* the SentenceTransformer objects constructed
    rank_call,           \* arguments of a rank_publications call
    ranking,             \* the value rank_publications returned
    svd_failed,          \* np.linalg.svd raised LinAlgError
    proposal,            \* the UserProposal given
    concepts,            \* what _extract_concepts returned
    queries,             \* what generate_search_queries returned
    pages,               \* what the server answers, by path of the URL
    url,                 \* the URL search fetches next
    page_num,            \* page_num of the loop of search
    scraped,             \* the list publications of search
    requested,           \* the URLs _fetch_page was called with, in order
    query_results        \* what search(query) returned, by query

vars == <<pc, api_key, proposal_branch, publications, similarity_results,
          overlap_ratings, verdict, confidence, response_text, report,
          raw_similarities, landscape_map, raised, _model, _model_name,
          threads, logged, loaded_models, rank_call, ranking, svd_failed,
          query_results, proposal, concepts, queries,
          pages, url, page_num, scraped, requested>>

encoder_vars == <<_model, _model_name, threads, logged, loaded_models>>
ranker_vars == <<rank_call, ranking>>
scraper_vars == <<pages, url, page_num, scraped, requested>>
proposal_vars == <<proposal, concepts, queries>>

----------------------------------------------------------------------------
(* Bounds                                                                  *)

\* longest list of distinct results the scoring functions are applied to
MaxResults == 2
\* longest list made of one result repeated (reaches every saturation point:
\* 5 high, 6 medium, 8 overlaps, 15 results)
MaxRepeat == 16

----------------------------------------------------------------------------
(* src/config.py                                                           *)

OVERLAP_HIGH_THRESHOLD == 6000
OVERLAP_MEDIUM_THRESHOLD == 4500

----------------------------------------------------------------------------
(* src/models.py                                                           *)

MilitaryBranch == {"navy", "army"}

Verdict == {"UNIQUE", "NAVY_UNIQUE", "AT_RISK", "NEEDS_REVIEW"}

Ratings == {"high", "medium", "low"}

NoValue == "none"

Min(a, b) == IF a < b THEN a ELSE b
Max(a, b) == IF a > b THEN a ELSE b

\* Publication with the fields the model reads; the others keep their defaults
Publication(id, title, branches) ==
    [id |-> id, title |-> title, detected_branches |-> branches]

\* SimilarityResult(publication=..., similarity_score=...), rank defaulting to 0
SimilarityResult(pub, score) ==
    [publication |-> pub, similarity_score |-> score, rank |-> 0]

----------------------------------------------------------------------------
(* src/analysis/scoring.py                                                 *)

compute_overlap_rating_strict(similarity_score) ==
    IF similarity_score > OVERLAP_HIGH_THRESHOLD THEN "high"
    ELSE IF similarity_score > OVERLAP_MEDIUM_THRESHOLD THEN "medium"
    ELSE "low"

compute_overlap_rating(similarity_score) ==
    IF similarity_score >= OVERLAP_HIGH_THRESHOLD THEN "high"
    ELSE IF similarity_score >= OVERLAP_MEDIUM_THRESHOLD THEN "medium"
    ELSE "low"

\* [compute_overlap_rating(r.similarity_score) for r in results]
RateAll(results) ==
    [i \in DOMAIN results |-> compute_overlap_rating(results[i].similarity_score)]

\* _any_shares_branch(indices), the closure of compute_verdict
any_shares_branch(results, indices, branch) ==
    \E i \in indices : branch \in results[i].publication.detected_branches

\* the verdict with the branch test applied to the high-rated results too
compute_verdict_branch_first(results, ratings, branch) ==
    IF results = <<>> THEN "UNIQUE"
    ELSE
        LET high_indices == {i \in DOMAIN ratings : ratings[i] = "high"}
            medium_indices == {i \in DOMAIN ratings : ratings[i] = "medium"}
        IN  IF high_indices # {}
            THEN IF any_shares_branch(results, high_indices, branch)
                 THEN "AT_RISK" ELSE "NAVY_UNIQUE"
            ELSE IF medium_indices # {}
            THEN IF any_shares_branch(results, medium_indices, branch)
                 THEN "NEEDS_REVIEW" ELSE "NAVY_UNIQUE"
            ELSE "UNIQUE"

\* the verdict with the branch test reading every result, whatever its rating
compute_verdict_any_branch(results, ratings, branch) ==
    IF results = <<>> THEN "UNIQUE"
    ELSE
        LET high_indices == {i \in DOMAIN ratings : ratings[i] = "high"}
            medium_indices == {i \in DOMAIN ratings : ratings[i] = "medium"}
        IN  IF high_indices # {} THEN "AT_RISK"
            ELSE IF medium_indices # {}
            THEN IF any_shares_branch(results, DOMAIN ratings, branch)
                 THEN "NEEDS_REVIEW" ELSE "NAVY_UNIQUE"
            ELSE "UNIQUE"

\* the verdict with rule 1 (no results) dropped and NEEDS_REVIEW as the default
compute_verdict_default_review(results, ratings, branch) ==
    LET high_indices == {i \in DOMAIN ratings : ratings[i] = "high"}
        medium_indices == {i \in DOMAIN ratings : ratings[i] = "medium"}
    IN  IF high_indices # {} THEN "AT_RISK"
        ELSE IF medium_indices # {}
        THEN IF any_shares_branch(results, medium_indices, branch)
             THEN "NEEDS_REVIEW" ELSE "NAVY_UNIQUE"
        ELSE "NEEDS_REVIEW"

\* the verdict with NEEDS_REVIEW only when every medium-rated result shares
\* the branch
compute_verdict_all_share(results, ratings, branch) ==
    IF results = <<>> THEN "UNIQUE"
    ELSE
        LET high_indices == {i \in DOMAIN ratings : ratings[i] = "high"}
            medium_indices == {i \in DOMAIN ratings : ratings[i] = "medium"}
        IN  IF high_indices # {} THEN "AT_RISK"
            ELSE IF medium_indices # {}
            THEN IF \A i \in medium_indices :
                        branch \in results[i].publication.detected_branches
                 THEN "NEEDS_REVIEW" ELSE "NAVY_UNIQUE"
            ELSE "UNIQUE"

compute_verdict(results, ratings, branch) ==
    IF results = <<>> THEN "UNIQUE"
    ELSE
        LET high_indices == {i \in DOMAIN ratings : ratings[i] = "high"}
            medium_indices == {i \in DOMAIN ratings : ratings[i] = "medium"}
        IN  IF high_indices # {} THEN "AT_RISK"
            ELSE IF medium_indices # {}
            THEN IF any_shares_branch(results, medium_indices, branch)
                 THEN "NEEDS_REVIEW" ELSE "NAVY_UNIQUE"
            ELSE "UNIQUE"

\* max(r.similarity_score for r in results), results not empty
max_score(results) ==
    CHOOSE s \in {results[i].similarity_score : i \in DOMAIN results} :
        \A i \in DOMAIN results : results[i].similarity_score <= s

\* base + sample_bonus in ticks (1/90000), before clamping; results not empty.
\*   UNIQUE       0.60 + min(gap / 0.45, 1.0) * 0.35, gap = 0.45 - max_score:
\*                54000 + 7 * min(4500 - max_score, 4500)
\*   AT_RISK      0.60 + min(n_high / 5.0, 1.0) * 0.30:   54000 + 5400 * min(n_high, 5)
\*   NAVY_UNIQUE  0.65 + min(count / 8.0, 1.0) * 0.20:    58500 + 2250 * min(count, 8)
\*   NEEDS_REVIEW 0.45 + min(n_medium / 6.0, 1.0) * 0.15: 40500 + 2250 * min(n_medium, 6)
\*   sample_bonus min(len(results) / 15.0, 1.0) * 0.05:   300 * min(len, 15)

\* lines 79-80: sum(1 for r in overlap_ratings if r == x)
n_rated(ratings, x) == Cardinality({i \in DOMAIN ratings : ratings[i] = x})

\* the base of NEEDS_REVIEW that grows with every medium rating
base_ticks_unsaturated(results, ratings, v) ==
    IF v = "UNIQUE"
    THEN 54000 + 7 * Min(OVERLAP_MEDIUM_THRESHOLD - max_score(results),
                         OVERLAP_MEDIUM_THRESHOLD)
    ELSE IF v = "AT_RISK" THEN 54000 + 5400 * Min(n_rated(ratings, "high"), 5)
    ELSE IF v = "NAVY_UNIQUE"
    THEN 58500 + 2250 * Min(n_rated(ratings, "high") + n_rated(ratings, "medium"), 8)
    ELSE 40500 + 2250 * n_rated(ratings, "medium")

\* the base of UNIQUE that grows with the maximum score
base_ticks_gap_reversed(results, ratings, v) ==
    IF v = "UNIQUE"
    THEN 54000 + 7 * Min(Max(max_score(results), 0), OVERLAP_MEDIUM_THRESHOLD)
    ELSE IF v = "AT_RISK" THEN 54000 + 5400 * Min(n_rated(ratings, "high"), 5)
    ELSE IF v = "NAVY_UNIQUE"
    THEN 58500 + 2250 * Min(n_rated(ratings, "high") + n_rated(ratings, "medium"), 8)
    ELSE 40500 + 2250 * Min(n_rated(ratings, "medium"), 6)

\* lines 82-101: base, in ticks
base_ticks(results, ratings, v) ==
    LET n_high == n_rated(ratings, "high")
        n_medium == n_rated(ratings, "medium")
    IN  IF v = "UNIQUE"
        THEN 54000 + 7 * Min(OVERLAP_MEDIUM_THRESHOLD - max_score(results),
                             OVERLAP_MEDIUM_THRESHOLD)
        ELSE IF v = "AT_RISK" THEN 54000 + 5400 * Min(n_high, 5)
        ELSE IF v = "NAVY_UNIQUE" THEN 58500 + 2250 * Min(n_high + n_medium, 8)
        ELSE 40500 + 2250 * Min(n_medium, 6)

\* lines 103-104: sample_bonus, in ticks
sample_bonus_ticks(results) == 300 * Min(Len(results), 15)

\* line 106: confidence = base + sample_bonus
confidence_ticks(results, ratings, v) ==
    base_ticks(results, ratings, v) + sample_bonus_ticks(results)

\* the clamp lost: the sum is rounded as it is
clamp_ticks_none(t) == t

\* max(0.10, min(0.99, confidence)) in ticks
clamp_ticks(t) == Max(9000, Min(89100, t))

\* round(x, 2), x >= 0 in ticks: the set of hundredths it can give.  On an
\* exact tie (x.xx5) the float held for x lies a rounding error to one side
\* or the other, so both neighbours are outcomes.
round2(t) ==
    LET q == t \div 900
        r == t % 900
    IN  IF r < 450 THEN {q} ELSE IF r > 450 THEN {q + 1} ELSE {q, q + 1}

\* the flat 0.90 given to the verdict UNIQUE only: for another verdict the base
\* and the bonus are computed from the empty list
compute_confidence_flat_unique(results, ratings, v) ==
    IF results = <<>> /\ v = "UNIQUE" THEN {90}
    ELSE round2(clamp_ticks(confidence_ticks(results, ratings, v)))

\* compute_confidence(results, overlap_ratings, verdict): the set of hundredths
\* the call can return (one value, except on a rounding tie)
compute_confidence(results, ratings, v) ==
    IF results = <<>> THEN {90}
    ELSE round2(clamp_ticks(confidence_ticks(results, ratings, v)))

----------------------------------------------------------------------------
(* Arguments of the scoring functions (tests/test_pipeline.py, TestScoring) *)

\* -0.20, 0.0, 0.30, 0.4499, 0.45, 0.60, 0.70, 1.50
Scores == {-2000, 0, 3000, 4499, 4500, 6000, 7000, 15000}

BranchLists == {{}, {"navy"}, {"army"}}

\* _make_result(score, branches)
make_result(score, branches) ==
    SimilarityResult(Publication(<<"pub.", "1">>, <<"t">>, branches), score)

TestResults == {make_result(s, b) : s \in Scores, b \in BranchLists}

SeqsUpTo(S, n) == UNION {[1..k -> S] : k \in 0..n}

Repeat(x, k) == [i \in 1..k |-> x]

\* short lists of any results, and long lists of one result repeated
ResultLists ==
    SeqsUpTo(TestResults, MaxResults)
        \cup {Repeat(r, k) : r \in TestResults, k \in 1..MaxRepeat}

\* ratings handed to compute_confidence: the computed ones, or a list that
\* does not come from the scores
RatingArgs(results) ==
    {RateAll(results), <<>>}
        \cup {Repeat(x, Len(results)) : x \in Ratings}
        \cup {Repeat(x, Len(results) + 1) : x \in Ratings}

NoReport == [kind |-> "none"]

\* no response received yet
NoResponse == [lines |-> <<>>, doc |-> [type |-> "none"]]

\* _model: SentenceTransformer | None = None
NoModel == [name |-> "", by |-> 0, call |-> 0]

\* no rank_publications call made, nothing returned
NoRankCall == [top_k |-> 0, threshold |-> 0, concept_scores |-> <<>>]
NoRanking == [kind |-> "none"]
NoProposal == [kind |-> "none"]

ScoringInit ==
    /\ pc = "args"
    /\ similarity_results \in ResultLists
    /\ overlap_ratings = <<>>
    /\ proposal_branch = NoValue
    /\ verdict = NoValue
    /\ confidence = NoValue
    /\ api_key = FALSE
    /\ publications = <<>>
    /\ response_text = NoResponse
    /\ report = NoReport
    /\ raw_similarities = <<>>
    /\ landscape_map = <<>>
    /\ raised = "none"
    /\ _model = NoModel
    /\ _model_name = ""
    /\ threads = <<>>
    /\ logged = {}
    /\ loaded_models = {}
    /\ rank_call = NoRankCall
    /\ ranking = NoRanking
    /\ svd_failed = FALSE
    /\ pages = <<>>
    /\ url = <<>>
    /\ page_num = 0
    /\ scraped = <<>>
    /\ requested = <<>>
    /\ proposal = NoProposal
    /\ concepts = <<>>
    /\ queries = <<>>
    /\ query_results = <<>>

\* ratings = [compute_overlap_rating(r.similarity_score) for r in results]
RateResults ==
    /\ pc = "args"
    /\ overlap_ratings' = RateAll(similarity_results)
    /\ pc' = "rated"
    /\ UNCHANGED <<raw_similarities, api_key, proposal_branch, publications, similarity_results,
                   verdict, confidence, response_text, report, landscape_map,
                   raised>>
    /\ UNCHANGED <<encoder_vars, ranker_vars, svd_failed>>
    /\ UNCHANGED query_results
    /\ UNCHANGED scraper_vars
    /\ UNCHANGED proposal_vars

\* verdict = compute_verdict(results, ratings, branch)
ComputeVerdict ==
    /\ pc = "rated"
    /\ \E b \in MilitaryBranch :
        /\ proposal_branch' = b
        /\ verdict' = compute_verdict(similarity_results, overlap_ratings, b)
    /\ pc' = "verdict"
    /\ UNCHANGED <<raw_similarities, api_key, publications, similarity_results, overlap_ratings,
                   confidence, response_text, report, landscape_map, raised>>
    /\ UNCHANGED <<encoder_vars, ranker_vars, svd_failed>>
    /\ UNCHANGED query_results
    /\ UNCHANGED scraper_vars
    /\ UNCHANGED proposal_vars

\* conf = compute_confidence(results, ratings, verdict), for any ratings list
\* and any verdict
ComputeConfidence ==
    /\ pc = "rated"
    /\ \E rt \in RatingArgs(similarity_results), v \in Verdict :
        /\ overlap_ratings' = rt
        /\ verdict' = v
        /\ confidence' \in compute_confidence(similarity_results, rt, v)
    /\ pc' = "confidence"
    /\ UNCHANGED <<raw_similarities, api_key, proposal_branch, publications, similarity_results,
                   response_text, report, landscape_map, raised>>
    /\ UNCHANGED <<encoder_vars, ranker_vars, svd_failed>>
    /\ UNCHANGED query_results
    /\ UNCHANGED scraper_vars
    /\ UNCHANGED proposal_vars

ScoringNext == RateResults \/ ComputeVerdict \/ ComputeConfidence

SpecScoring == ScoringInit /\ [][ScoringNext]_vars

----------------------------------------------------------------------------
(* Strings.  An identifier or a title is a sequence of tokens: "pub." is   *)
(* the prefix, " " is whitespace, a letter is itself, and an upper-case    *)
(* letter differs from its lower-case form.                                *)

IsSpace(t) == t = " "

\* str.strip()
RECURSIVE lstrip(_)
lstrip(s) == IF s # <<>> /\ IsSpace(Head(s)) THEN lstrip(Tail(s)) ELSE s

RECURSIVE rstrip(_)
rstrip(s) ==
    IF s # <<>> /\ IsSpace(s[Len(s)]) THEN rstrip(SubSeq(s, 1, Len(s) - 1)) ELSE s

strip(s) == rstrip(lstrip(s))

\* str.replace("pub.", "")
replace_pub(s) == SelectSeq(s, LAMBDA t : t # "pub.")

\* str.lower(), letter by letter
lower_char(t) == IF t = "R" THEN "r" ELSE IF t = "S" THEN "s" ELSE IF t = "A" THEN "a" ELSE t
lower(s) == [i \in DOMAIN s |-> lower_char(s[i])]

\* a in b, for strings
contains(b, a) ==
    \E k \in 0..(Len(b) - Len(a)) : SubSeq(b, k + 1, k + Len(a)) = a

----------------------------------------------------------------------------
(* src/config.py, src/scraper/dimensions.py: retrieval                      *)

SIMILARITY_TOP_K == 20
SIMILARITY_THRESHOLD == 3000

\* longest list of documents the search requests return in one run
MaxHits == 2

\* _parse_publication(doc): url is set when the document has an id; pub_year
\* is None (<<>>) or the year (<<2020>>)
parse_publication(id, title, branches, pub_year) ==
    [id |-> id, title |-> title, detected_branches |-> branches,
     pub_year |-> pub_year,
     url |-> IF id # <<>> THEN <<"details/">> \o id ELSE <<>>]

\* the documents the search endpoint can return: two whose ids differ only by
\* the prefix, one apart, and one without an id
Documents ==
    { parse_publication(<<"pub.", "1">>, <<"R", "a">>, {"navy"}, <<2020>>),
      parse_publication(<<"1">>, <<"a">>, {"army"}, <<2021>>),
      parse_publication(<<"pub.", "2">>, <<"S">>, {}, <<2022>>),
      parse_publication(<<>>, <<"S">>, {"navy"}, <<>>) }

\* search_all(queries): the pages' publications in order, the first of each
\* non-empty id kept
RECURSIVE search_all_from(_, _, _)
search_all_from(pubs, seen_ids, all_pubs) ==
    IF pubs = <<>> THEN all_pubs
    ELSE LET pub == Head(pubs)
         IN  IF pub.id # <<>> /\ pub.id \notin seen_ids
             THEN search_all_from(Tail(pubs), seen_ids \cup {pub.id},
                                  Append(all_pubs, pub))
             ELSE search_all_from(Tail(pubs), seen_ids, all_pubs)

\* every publication is kept
search_all_keeps_all(pubs) == pubs

search_all(pubs) == search_all_from(pubs, {}, <<>>)

----------------------------------------------------------------------------
(* src/scraper/dimensions.py: search_all as a function of what the search   *)
(* of each query returns                                                    *)

\* test_search_all_deduplicates: two queries
Queries == <<"title", "keywords">>

\* the documents of Documents, and one with the id of another and its own
\* title
SearchDocuments ==
    Documents \cup {parse_publication(<<"pub.", "1">>, <<"S">>, {"army"}, <<>>)}

\* for query in queries: for pub in pubs: the publications in the order the
\* two loops meet them
RECURSIVE flatten(_)
flatten(lists) ==
    IF lists = <<>> THEN <<>> ELSE Head(lists) \o flatten(Tail(lists))

SearchInit ==
    /\ pc = "search_args"
    /\ query_results \in [DOMAIN Queries -> SeqsUpTo(SearchDocuments, MaxHits)]
    /\ publications = <<>>
    /\ api_key = FALSE
    /\ proposal_branch = NoValue
    /\ similarity_results = <<>>
    /\ overlap_ratings = <<>>
    /\ verdict = NoValue
    /\ confidence = NoValue
    /\ response_text = NoResponse
    /\ report = NoReport
    /\ raw_similarities = <<>>
    /\ landscape_map = <<>>
    /\ raised = "none"
    /\ _model = NoModel
    /\ _model_name = ""
    /\ threads = <<>>
    /\ logged = {}
    /\ loaded_models = {}
    /\ rank_call = NoRankCall
    /\ ranking = NoRanking
    /\ svd_failed = FALSE
    /\ pages = <<>>
    /\ url = <<>>
    /\ page_num = 0
    /\ scraped = <<>>
    /\ requested = <<>>
    /\ proposal = NoProposal
    /\ concepts = <<>>
    /\ queries = <<>>

\* results = await scraper.search_all(queries)
SearchAllQueries ==
    /\ pc = "search_args"
    /\ publications' = search_all(flatten(query_results))
    /\ pc' = "searched"
    /\ UNCHANGED <<api_key, proposal_branch, similarity_results, overlap_ratings,
                   verdict, confidence, response_text, report, raw_similarities,
                   landscape_map, raised, encoder_vars, ranker_vars, svd_failed,
                   query_results>>
    /\ UNCHANGED scraper_vars
    /\ UNCHANGED proposal_vars

SearchNext == SearchAllQueries

SpecSearch == SearchInit /\ [][SearchNext]_vars

----------------------------------------------------------------------------
(* src/embeddings/encoder.py: get_model                                     *)

EMBEDDING_MODEL == "allenai/specter2_aug2023refresh"
FALLBACK_EMBEDDING_MODEL == "sentence-transformers/all-MiniLM-L6-v2"

\* SentenceTransformer(model_name): a new object, told from every other by the
\* thread and the call that constructed it
SentenceTransformer(model_name, t, k) == [name |-> model_name, by |-> t, call |-> k]

\* logger.info / logger.warning lines
LoadingLine(model_name) == <<"Loading embedding model", model_name>>
LoadedLine == <<"Model loaded successfully">>
WarningLine(model_name) == <<"Failed to load", model_name, "Falling back to MiniLM.">>

\* the thread that runs the pipeline
MainThread == 0

\* one get_model() call run to its end with no other thread in between, by
\* the outcome of its loads: "cached", "primary", "fallback", "raise"
get_model_outcomes(model) ==
    IF model # NoModel THEN {"cached"} ELSE {"primary", "fallback", "raise"}

get_model_model(model, outcome, t, k) ==
    IF outcome = "primary" THEN SentenceTransformer(EMBEDDING_MODEL, t, k)
    ELSE IF outcome = "fallback" THEN SentenceTransformer(FALLBACK_EMBEDDING_MODEL, t, k)
    ELSE model

get_model_name(name, outcome) ==
    IF outcome = "primary" THEN EMBEDDING_MODEL
    ELSE IF outcome = "fallback" THEN FALLBACK_EMBEDDING_MODEL
    ELSE name

get_model_logged(lines, outcome) ==
    IF outcome = "cached" THEN lines
    ELSE IF outcome = "primary"
        THEN lines \cup {LoadingLine(EMBEDDING_MODEL), LoadedLine}
    ELSE lines \cup {LoadingLine(EMBEDDING_MODEL), WarningLine(EMBEDDING_MODEL)}

get_model_loaded(models, model, outcome, t, k) ==
    IF outcome \in {"primary", "fallback"}
    THEN models \cup {get_model_model(model, outcome, t, k)}
    ELSE models

----------------------------------------------------------------------------
(* src/embeddings/encoder.py: get_model called from several threads.  Each  *)
(* statement is a step; a SentenceTransformer(...) construction takes long  *)
(* and other threads run meanwhile.                                         *)

\* threads that call get_model, and calls each of them makes
MaxCallers == 2
MaxCalls == 2

Callers == 1..MaxCallers

EncoderInit ==
    /\ pc = "encoder"
    /\ _model = NoModel
    /\ _model_name = ""
    /\ threads = [t \in Callers |-> [pc |-> "idle", calls |-> 0, returned |-> NoModel]]
    /\ logged = {}
    /\ loaded_models = {}
    /\ api_key = FALSE
    /\ proposal_branch = NoValue
    /\ publications = <<>>
    /\ similarity_results = <<>>
    /\ overlap_ratings = <<>>
    /\ verdict = NoValue
    /\ confidence = NoValue
    /\ response_text = NoResponse
    /\ report = NoReport
    /\ raw_similarities = <<>>
    /\ landscape_map = <<>>
    /\ raised = "none"
    /\ rank_call = NoRankCall
    /\ ranking = NoRanking
    /\ svd_failed = FALSE
    /\ pages = <<>>
    /\ url = <<>>
    /\ page_num = 0
    /\ scraped = <<>>
    /\ requested = <<>>
    /\ proposal = NoProposal
    /\ concepts = <<>>
    /\ queries = <<>>
    /\ query_results = <<>>

not_encoder_vars ==
    <<pc, api_key, proposal_branch, publications, similarity_results,
      overlap_ratings, verdict, confidence, response_text, report,
      raw_similarities, landscape_map, raised, rank_call, ranking, svd_failed,
      query_results, proposal, concepts, queries,
      pages, url, page_num, scraped, requested>>

\* lines 26-27: _model is not None, return _model
ReturnCached(t) ==
    /\ threads[t].pc \in {"idle", "raised"}
    /\ threads[t].calls < MaxCalls
    /\ _model # NoModel
    /\ threads' = [threads EXCEPT ![t] =
            [pc |-> "idle", calls |-> @.calls + 1, returned |-> _model]]
    /\ UNCHANGED <<_model, _model_name, logged, loaded_models, not_encoder_vars>>

\* lines 26-31: _model is None, the load of the primary model begins
BeginLoad(t) ==
    /\ threads[t].pc \in {"idle", "raised"}
    /\ threads[t].calls < MaxCalls
    /\ _model = NoModel
    /\ logged' = logged \cup {LoadingLine(EMBEDDING_MODEL)}
    /\ threads' = [threads EXCEPT ![t] =
            [pc |-> "load_primary", calls |-> @.calls + 1, returned |-> NoModel]]
    /\ UNCHANGED <<_model, _model_name, loaded_models, not_encoder_vars>>

\* line 32: _model = SentenceTransformer(model_name, trust_remote_code=True)
LoadPrimary(t) ==
    /\ threads[t].pc = "load_primary"
    /\ LET m == SentenceTransformer(EMBEDDING_MODEL, t, threads[t].calls)
       IN  /\ _model' = m
           /\ loaded_models' = loaded_models \cup {m}
    /\ threads' = [threads EXCEPT ![t].pc = "name_primary"]
    /\ UNCHANGED <<_model_name, logged, not_encoder_vars>>

\* lines 33-34: _model_name = model_name, and the success logged
NamePrimary(t) ==
    /\ threads[t].pc = "name_primary"
    /\ _model_name' = EMBEDDING_MODEL
    /\ logged' = logged \cup {LoadedLine}
    /\ threads' = [threads EXCEPT ![t].pc = "return"]
    /\ UNCHANGED <<_model, loaded_models, not_encoder_vars>>

\* lines 35-37: the primary load raises, the warning is logged
PrimaryRaises(t) ==
    /\ threads[t].pc = "load_primary"
    /\ logged' = logged \cup {WarningLine(EMBEDDING_MODEL)}
    /\ threads' = [threads EXCEPT ![t].pc = "load_fallback"]
    /\ UNCHANGED <<_model, _model_name, loaded_models, not_encoder_vars>>

\* line 38: _model = SentenceTransformer(model_name)
LoadFallback(t) ==
    /\ threads[t].pc = "load_fallback"
    /\ LET m == SentenceTransformer(FALLBACK_EMBEDDING_MODEL, t, threads[t].calls)
       IN  /\ _model' = m
           /\ loaded_models' = loaded_models \cup {m}
    /\ threads' = [threads EXCEPT ![t].pc = "name_fallback"]
    /\ UNCHANGED <<_model_name, logged, not_encoder_vars>>

\* line 39: _model_name = model_name
NameFallback(t) ==
    /\ threads[t].pc = "name_fallback"
    /\ _model_name' = FALLBACK_EMBEDDING_MODEL
    /\ threads' = [threads EXCEPT ![t].pc = "return"]
    /\ UNCHANGED <<_model, logged, loaded_models, not_encoder_vars>>

\* the fallback load raises and leaves a model cached all the same
FallbackRaises_cached(t) ==
    /\ threads[t].pc = "load_fallback"
    /\ _model' = SentenceTransformer(FALLBACK_EMBEDDING_MODEL, t, threads[t].calls)
    /\ threads' = [threads EXCEPT ![t].pc = "raised"]
    /\ UNCHANGED <<_model_name, logged, loaded_models, not_encoder_vars>>

\* line 38: the fallback load raises too, out of get_model
FallbackRaises(t) ==
    /\ threads[t].pc = "load_fallback"
    /\ threads' = [threads EXCEPT ![t].pc = "raised"]
    /\ UNCHANGED <<_model, _model_name, logged, loaded_models, not_encoder_vars>>

\* line 41: return _model
ReturnModel(t) ==
    /\ threads[t].pc = "return"
    /\ threads' = [threads EXCEPT ![t].pc = "idle", ![t].returned = _model]
    /\ UNCHANGED <<_model, _model_name, logged, loaded_models, not_encoder_vars>>

EncoderNext ==
    \E t \in Callers :
        \/ ReturnCached(t)
        \/ BeginLoad(t)
        \/ LoadPrimary(t)
        \/ NamePrimary(t)
        \/ PrimaryRaises(t)
        \/ LoadFallback(t)
        \/ NameFallback(t)
        \/ FallbackRaises(t)
        \/ ReturnModel(t)

SpecEncoder == EncoderInit /\ [][EncoderNext]_vars

----------------------------------------------------------------------------
(* src/embeddings/similarity.py: rank_publications, from the final scores   *)

\* a descending sort that puts a result before the earlier ones of equal score
RECURSIVE insert_desc_ties_reversed(_, _)
insert_desc_ties_reversed(sorted, r) ==
    IF sorted = <<>> THEN <<r>>
    ELSE IF Head(sorted).similarity_score > r.similarity_score
         THEN <<Head(sorted)>> \o insert_desc_ties_reversed(Tail(sorted), r)
         ELSE <<r>> \o sorted

\* results.sort(key=similarity_score, reverse=True): stable
RECURSIVE insert_desc(_, _)
insert_desc(sorted, r) ==
    IF sorted = <<>> THEN <<r>>
    ELSE IF Head(sorted).similarity_score >= r.similarity_score
         THEN <<Head(sorted)>> \o insert_desc(Tail(sorted), r)
         ELSE <<r>> \o sorted

RECURSIVE sort_desc(_, _)
sort_desc(rest, sorted) ==
    IF rest = <<>> THEN sorted
    ELSE sort_desc(Tail(rest), insert_desc(sorted, Head(rest)))

\* no filter: every score passes
above_threshold_any(score, threshold) == TRUE

\* line 166: score >= threshold
above_threshold(score, threshold) == score >= threshold

\* lines 162-180: filter by threshold, sort descending, cut to top_k, rank
rank_publications(pubs, final_scores, top_k, threshold) ==
    LET kept == SelectSeq([i \in DOMAIN pubs |->
                              SimilarityResult(pubs[i], final_scores[i])],
                          LAMBDA r : above_threshold(r.similarity_score, threshold))
        sorted == sort_desc(kept, <<>>)
        cut == SubSeq(sorted, 1, Min(top_k, Len(sorted)))
    IN  [i \in DOMAIN cut |-> [cut[i] EXCEPT !.rank = i]]

\* the final scores the encoder and the combination can give a publication:
\* 0.20 (under the threshold), 0.40, 0.50, 0.70
RankScores == {2000, 4000, 5000, 7000}

\* floor of the square root, by bisection: lo * lo <= x < hi * hi
RECURSIVE isqrt_between(_, _, _)
isqrt_between(x, lo, hi) ==
    IF hi - lo <= 1 THEN lo
    ELSE LET mid == (lo + hi) \div 2
         IN  IF mid * mid <= x THEN isqrt_between(x, mid, hi)
             ELSE isqrt_between(x, lo, mid)

\* 46340 is the largest root of a 32-bit integer
isqrt(x) == isqrt_between(x, 0, Min(x, 46340) + 1)

\* concept_scores is None (no concept could be extracted); an array of
\* concept scores has one score for each publication, and there is at least one
None == <<>>

\* lines 156-158: np.sqrt(np.maximum(raw, 0) * np.maximum(concept, 0)), in
\* 1/10000ths: sqrt(h/10^4 * c/10^4) = sqrt(h * c)/10^4
geometric_mean(holistic, concept) == isqrt(Max(holistic, 0) * Max(concept, 0))

\* lines 153-160: final_scores
final_scores_of(raw, concept_scores) ==
    IF concept_scores # None
    THEN [i \in DOMAIN raw |-> geometric_mean(raw[i], concept_scores[i])]
    ELSE raw

\* RankingResult(results, proposal_embedding, pub_embeddings, publications,
\* similarities, threshold); an embedding is held by its number of rows
RankingResult(results, proposal_embedding, pub_embeddings, pubs, sims, threshold) ==
    [kind |-> "RankingResult", results |-> results,
     proposal_embedding |-> proposal_embedding, pub_embeddings |-> pub_embeddings,
     publications |-> pubs, similarities |-> sims, threshold |-> threshold]

\* every call encodes, the call with no publication too
reaches_encoder_always(pubs) == TRUE

\* lines 138-142: encode_proposal and encode_publications (and get_model in
\* them) are reached when there are publications
reaches_encoder(pubs) == pubs # <<>>

\* rank_publications(proposal, publications, top_k, threshold), from the
\* holistic similarities and the concept scores the encoder gives
rank_publications_returns(pubs, raw, concept_scores, top_k, threshold) ==
    IF ~reaches_encoder(pubs)
    THEN RankingResult(<<>>, 0, 0, <<>>, <<>>, threshold)
    ELSE RankingResult(rank_publications(pubs, final_scores_of(raw, concept_scores),
                                         top_k, threshold),
                       1, Len(pubs), pubs, raw, threshold)

\* a == b of Python for a value and a list: an object of a class without
\* __eq__ equals nothing but itself
equals_list(value, list) ==
    IF value.kind = "list" THEN value.items = list ELSE FALSE

----------------------------------------------------------------------------
(* src/pipeline.py: _compute_landscape_map.  A point carries its type, its  *)
(* similarity and the rank of its angle (the angle is 2*pi*rank/n).         *)

\* np.argsort(proj_1d): where the decomposition raises LinAlgError proj_1d is
\* np.zeros(n) and the order is that of the publications; where it succeeds
\* the order follows the embeddings (here: as the publications, or reversed)
argsort_orders(n, svd_raises) ==
    IF svd_raises THEN {[i \in 1..n |-> i]}
    ELSE {[i \in 1..n |-> i], [i \in 1..n |-> n + 1 - i]}

\* rank_idx with order[rank_idx] = idx, from 0
angle_rank(order, idx) == (CHOOSE k \in DOMAIN order : order[k] = idx) - 1

compute_landscape_map(pubs, sims, threshold, order) ==
    IF pubs = <<>> THEN <<>>
    ELSE <<[type |-> "query", similarity |-> 10000, angle_rank |-> 0]>>
            \o [i \in DOMAIN pubs |->
                  [type |-> IF sims[i] >= threshold THEN "relevant" ELSE "background",
                   similarity |-> sims[i],
                   angle_rank |-> angle_rank(order, i)]]

----------------------------------------------------------------------------
(* src/embeddings/similarity.py, src/pipeline.py: rank_publications and     *)
(* _compute_landscape_map as functions of their arguments                   *)

\* longest list of publications handed to rank_publications
MaxPubs == 2

\* the i-th publication of the list: ids "pub.1", "pub.11", ...
TestPublication(i) ==
    parse_publication(<<"pub.">> \o Repeat("1", i), <<"t">>, {}, <<>>)

\* holistic similarities np.dot gives: -0.20, 0.20, 0.30, 0.90
HolisticScores == {-2000, 2000, 3000, 9000}
\* concept scores _compute_idf_concept_scores gives: -0.10, 0.10, 0.90
ConceptScores == {-1000, 1000, 9000}

TopKs == {0, 1, 2, SIMILARITY_TOP_K}
Thresholds == {-5000, 0, SIMILARITY_THRESHOLD, 5000}

\* the model is not loaded yet, or an earlier call has loaded it
LoadedBefore == SentenceTransformer(EMBEDDING_MODEL, MainThread, 0)

RankInit ==
    /\ pc = "rank_args"
    /\ \E n \in 0..MaxPubs :
        /\ publications = [i \in 1..n |-> TestPublication(i)]
        /\ raw_similarities \in [1..n -> HolisticScores]
        /\ rank_call \in [top_k : TopKs, threshold : Thresholds,
                          concept_scores :
                              IF n = 0 THEN {None}
                              ELSE {None} \cup [1..n -> ConceptScores]]
    /\ \/ /\ _model = NoModel
          /\ _model_name = ""
          /\ loaded_models = {}
       \/ /\ _model = LoadedBefore
          /\ _model_name = EMBEDDING_MODEL
          /\ loaded_models = {LoadedBefore}
    /\ logged = {}
    /\ threads = <<>>
    /\ ranking = NoRanking
    /\ svd_failed = FALSE
    /\ pages = <<>>
    /\ url = <<>>
    /\ page_num = 0
    /\ scraped = <<>>
    /\ requested = <<>>
    /\ proposal = NoProposal
    /\ concepts = <<>>
    /\ queries = <<>>
    /\ query_results = <<>>
    /\ api_key = FALSE
    /\ proposal_branch = NoValue
    /\ similarity_results = <<>>
    /\ overlap_ratings = <<>>
    /\ verdict = NoValue
    /\ confidence = NoValue
    /\ response_text = NoResponse
    /\ report = NoReport
    /\ landscape_map = <<>>
    /\ raised = "none"

\* ranking = rank_publications(proposal, publications, top_k, threshold)
Rank ==
    /\ pc = "rank_args"
    /\ IF reaches_encoder(publications)
       THEN \E outcome \in get_model_outcomes(_model) \ {"raise"} :
            /\ _model' = get_model_model(_model, outcome, MainThread, 1)
            /\ _model_name' = get_model_name(_model_name, outcome)
            /\ logged' = get_model_logged(logged, outcome)
            /\ loaded_models' =
                    get_model_loaded(loaded_models, _model, outcome, MainThread, 1)
       ELSE UNCHANGED <<_model, _model_name, logged, loaded_models>>
    /\ ranking' = rank_publications_returns(publications, raw_similarities,
                                            rank_call.concept_scores,
                                            rank_call.top_k, rank_call.threshold)
    /\ pc' = "ranked"
    /\ UNCHANGED <<api_key, proposal_branch, publications, similarity_results,
                   overlap_ratings, verdict, confidence, response_text, report,
                   raw_similarities, landscape_map, raised, threads, rank_call,
                   svd_failed>>
    /\ UNCHANGED query_results
    /\ UNCHANGED scraper_vars
    /\ UNCHANGED proposal_vars

\* encode_proposal: both loads of get_model raise, out of rank_publications
RankEncodeRaises ==
    /\ pc = "rank_args"
    /\ reaches_encoder(publications)
    /\ "raise" \in get_model_outcomes(_model)
    /\ logged' = get_model_logged(logged, "raise")
    /\ raised' = "Exception"
    /\ pc' = "failed"
    /\ UNCHANGED <<api_key, proposal_branch, publications, similarity_results,
                   overlap_ratings, verdict, confidence, response_text, report,
                   raw_similarities, landscape_map, _model, _model_name, threads,
                   loaded_models, rank_call, ranking, svd_failed>>
    /\ UNCHANGED query_results
    /\ UNCHANGED scraper_vars
    /\ UNCHANGED proposal_vars

\* landscape_map = _compute_landscape_map(ranking)
ComputeLandscapeMap ==
    /\ pc = "ranked"
    /\ \E svd_raises \in BOOLEAN :
        /\ svd_failed' = svd_raises
        /\ \E order \in argsort_orders(Len(ranking.publications), svd_raises) :
            landscape_map' =
                IF ranking.proposal_embedding = 0 \/ ranking.pub_embeddings = 0
                THEN <<>>
                ELSE compute_landscape_map(ranking.publications,
                                           ranking.similarities,
                                           ranking.threshold, order)
    /\ pc' = "mapped"
    /\ UNCHANGED <<api_key, proposal_branch, publications, similarity_results,
                   overlap_ratings, verdict, confidence, response_text, report,
                   raw_similarities, raised, encoder_vars, ranker_vars>>
    /\ UNCHANGED query_results
    /\ UNCHANGED scraper_vars
    /\ UNCHANGED proposal_vars

RankNext == Rank \/ RankEncodeRaises \/ ComputeLandscapeMap

SpecRank == RankInit /\ [][RankNext]_vars

----------------------------------------------------------------------------
(* src/analysis/llm_client.py: the response and its parsing                 *)

\* most entries in the "comparisons" array of a response
MaxComparisons == 1

\* comp(id, title, rating, score): one object of "comparisons"; the rating
\* and the score are what the response asserts about the publication, against
\* its instructions
comp(id, title, rating, score) ==
    [type |-> "object", publication_id |-> id, title |-> title,
     asserted |-> [overlap_rating |-> rating, similarity_score |-> score]]

\* the elements of "comparisons": objects that name a publication by its id,
\* by its id without the prefix and padded, by its title in another case, by
\* a part of its title, or that name none; and a JSON value that is no object
ComparisonEntries ==
    { comp(<<"pub.", "1">>, <<"x">>, "high", 9900),
      comp(<<" ", "1">>, <<"x">>, "low", 100),
      comp(<<"2">>, <<"x">>, "high", 9900),
      comp(<<"9">>, <<"r", "a">>, "low", 100),
      comp(<<"9">>, <<"a">>, "high", 9900),
      comp(<<"9">>, <<"x">>, "high", 9900),
      [type |-> "string"] }

\* a JSON document: an object with the expected fields (and a verdict and a
\* confidence of its own), or another JSON value
JsonDocuments ==
    {[type |-> "object", executive_summary |-> "summary", verdict |-> "UNIQUE",
      confidence |-> 99, comparisons |-> c] :
        c \in SeqsUpTo(ComparisonEntries, MaxComparisons)}
      \cup {[type |-> "array"], [type |-> "string"], [type |-> "number"]}

\* the lines of a response: the JSON document ("json") bare, or between code
\* fences and blank lines; or prose, alone or before the fenced document
ParsableLines == {<<"json">>, <<"blank", "fence", "json", "fence", "blank">>}
UnparsableLines == {<<"prose">>, <<"prose", "fence", "json", "fence">>}

Responses ==
    {[lines |-> l, doc |-> d] : l \in ParsableLines, d \in JsonDocuments}
      \cup {[lines |-> l, doc |-> [type |-> "array"]] : l \in UnparsableLines}

IsBlank(l) == l = "blank"
IsFence(l) == l = "fence"

RECURSIVE lstrip_lines(_)
lstrip_lines(ls) ==
    IF ls # <<>> /\ IsBlank(Head(ls)) THEN lstrip_lines(Tail(ls)) ELSE ls

RECURSIVE rstrip_lines(_)
rstrip_lines(ls) ==
    IF ls # <<>> /\ IsBlank(ls[Len(ls)])
    THEN rstrip_lines(SubSeq(ls, 1, Len(ls) - 1)) ELSE ls

\* cleaned: text.strip(), and with its first line a fence, every fence line
\* removed
cleaned_lines(text) ==
    LET stripped == rstrip_lines(lstrip_lines(text.lines))
    IN  IF stripped # <<>> /\ IsFence(Head(stripped))
        THEN SelectSeq(stripped, LAMBDA l : ~IsFence(l))
        ELSE stripped

\* json.loads(cleaned) returns: the text is one JSON document
json_loads_ok(text) == cleaned_lines(text) = <<"json">>

\* _parse_llm_response(text), where json.loads returns
parse_llm_response(text) == text.doc

----------------------------------------------------------------------------
(* src/analysis/llm_client.py: the enrichment join                          *)

full_id(sr) == strip(sr.publication.id)
bare_id(sr) == strip(replace_pub(full_id(sr)))
norm_title(sr) == lower(strip(sr.publication.title))

\* the indices whose loop iteration writes id_lookup[key]
id_lookup_writers(results, key) ==
    {i \in DOMAIN results :
        \/ full_id(results[i]) = key
        \/ (bare_id(results[i]) # <<>> /\ bare_id(results[i]) = key)}

\* the indices whose loop iteration writes title_lookup[key]
title_lookup_writers(results, key) ==
    {i \in DOMAIN results :
        norm_title(results[i]) # <<>> /\ norm_title(results[i]) = key}

Last(S) == CHOOSE i \in S : \A j \in S : j <= i
First(S) == CHOOSE i \in S : \A j \in S : i <= j

\* only the identifier as given and the title are tried
find_sr_exact(results, pub_id, title) ==
    LET pid == strip(pub_id)
        norm == lower(strip(title))
        by_id == {i \in DOMAIN results : full_id(results[i]) = pid}
    IN  IF by_id # {} THEN Last(by_id)
        ELSE IF title_lookup_writers(results, norm) # {}
            THEN Last(title_lookup_writers(results, norm))
        ELSE 0

\* _find_sr(pub_id, title): the index of the result found, 0 for None
find_sr(results, pub_id, title) ==
    LET pid == strip(pub_id)
        bare == strip(replace_pub(pid))
        prefixed == <<"pub.">> \o bare
        norm == lower(strip(title))
        by_bare == {i \in DOMAIN results :
                        LET sr_bare == strip(replace_pub(results[i].publication.id))
                        IN  bare # <<>> /\ sr_bare # <<>> /\ bare = sr_bare}
        by_title == {i \in DOMAIN results :
                        LET sr_title == lower(strip(results[i].publication.title))
                        IN  /\ norm # <<>>
                            /\ sr_title # <<>>
                            /\ (contains(sr_title, norm) \/ contains(norm, sr_title))}
    IN  IF id_lookup_writers(results, pid) # {}
            THEN Last(id_lookup_writers(results, pid))
        ELSE IF id_lookup_writers(results, bare) # {}
            THEN Last(id_lookup_writers(results, bare))
        ELSE IF id_lookup_writers(results, prefixed) # {}
            THEN Last(id_lookup_writers(results, prefixed))
        ELSE IF title_lookup_writers(results, norm) # {}
            THEN Last(title_lookup_writers(results, norm))
        ELSE IF by_bare # {} THEN First(by_bare)
        ELSE IF by_title # {} THEN First(by_title)
        ELSE 0

\* sr_overlap_map.get(pub.id, "low"): the rating written last under that id
sr_overlap_map_get(results, ratings, id) ==
    LET writers == {i \in DOMAIN results : results[i].publication.id = id}
    IN  IF writers = {} THEN "low" ELSE ratings[Last(writers)]

\* a comparison that shows what the response asserts
build_comparison_trusting(results, ratings, comp_data) ==
    LET k == find_sr(results, comp_data.publication_id, comp_data.title)
    IN  [publication_id |-> comp_data.publication_id,
         title |-> comp_data.title,
         overlap_rating |-> comp_data.asserted.overlap_rating,
         url |-> IF k # 0 THEN results[k].publication.url ELSE <<>>,
         pub_year |-> IF k # 0 THEN results[k].publication.pub_year ELSE <<>>,
         funding_branches |->
            IF k # 0 THEN results[k].publication.detected_branches ELSE {},
         similarity_score |-> comp_data.asserted.similarity_score]

\* lines 209-244: the PublicationComparison of one entry
build_comparison(results, ratings, comp_data) ==
    LET k == find_sr(results, comp_data.publication_id, comp_data.title)
    IN  [publication_id |-> comp_data.publication_id,
         title |-> comp_data.title,
         overlap_rating |->
            IF k # 0
            THEN sr_overlap_map_get(results, ratings, results[k].publication.id)
            ELSE "low",
         url |-> IF k # 0 THEN results[k].publication.url ELSE <<>>,
         pub_year |-> IF k # 0 THEN results[k].publication.pub_year ELSE <<>>,
         funding_branches |->
            IF k # 0 THEN results[k].publication.detected_branches ELSE {},
         similarity_score |-> IF k # 0 THEN results[k].similarity_score ELSE 0]

\* AnalysisReport(...)
AnalysisReport(v, conf, summary, comparisons, found, analyzed) ==
    [kind |-> "report", verdict |-> v, confidence |-> conf,
     executive_summary |-> summary, comparisons |-> comparisons,
     total_results_found |-> found, results_analyzed |-> analyzed]

\* lines 147-155: the report returned when json.loads raises JSONDecodeError
fallback_report(results, v, conf, text) ==
    AnalysisReport(v, conf, [kind |-> "unparsed", raw |-> text], <<>>,
                   Len(results), Len(results))

\* lines 207-257: the report built from a parsed object
parsed_report(results, ratings, v, conf, parsed) ==
    AnalysisReport(v, conf,
                   [kind |-> "narrative", text |-> parsed.executive_summary],
                   [i \in DOMAIN parsed.comparisons |->
                        build_comparison(results, ratings, parsed.comparisons[i])],
                   Len(results), Len(results))

\* parsed.get / comp_data.get raise AttributeError on a value that is no dict
gets_raise(parsed) ==
    IF parsed.type # "object" THEN TRUE
    ELSE \E i \in DOMAIN parsed.comparisons : parsed.comparisons[i].type # "object"

\* the report of an empty search with the scoring engine's value for no
\* results (0.90)
no_publications_report_scored ==
    AnalysisReport(compute_verdict(<<>>, <<>>, "navy"),
                   CHOOSE c \in compute_confidence(<<>>, <<>>, "UNIQUE") : TRUE,
                   [kind |-> "no_publications"], <<>>, 0, 0)

\* run_pipeline, lines 138-151: the report of an empty search
no_publications_report ==
    AnalysisReport("UNIQUE", 50, [kind |-> "no_publications"], <<>>, 0, 0)

----------------------------------------------------------------------------
(* src/pipeline.py: run_pipeline                                            *)

Init ==
    /\ pc = "start"
    /\ api_key \in BOOLEAN
    /\ proposal_branch \in MilitaryBranch
    /\ publications = <<>>
    /\ similarity_results = <<>>
    /\ overlap_ratings = <<>>
    /\ verdict = NoValue
    /\ confidence = NoValue
    /\ response_text = NoResponse
    /\ report = NoReport
    /\ raw_similarities = <<>>
    /\ landscape_map = <<>>
    /\ raised = "none"
    /\ _model = NoModel
    /\ _model_name = ""
    /\ threads = <<>>
    /\ logged = {}
    /\ loaded_models = {}
    /\ rank_call = NoRankCall
    /\ ranking = NoRanking
    /\ svd_failed = FALSE
    /\ pages = <<>>
    /\ url = <<>>
    /\ page_num = 0
    /\ scraped = <<>>
    /\ requested = <<>>
    /\ proposal = NoProposal
    /\ concepts = <<>>
    /\ queries = <<>>
    /\ query_results = <<>>

\* step 2: publications = await scraper.search_all(queries)
SearchAll ==
    /\ pc = "start"
    /\ \E hits \in SeqsUpTo(Documents, MaxHits) :
        publications' = search_all(hits)
    /\ pc' = "searched"
    /\ UNCHANGED <<raw_similarities, api_key, proposal_branch, similarity_results, overlap_ratings,
                   verdict, confidence, response_text, report, landscape_map,
                   raised>>
    /\ UNCHANGED <<encoder_vars, ranker_vars, svd_failed>>
    /\ UNCHANGED query_results
    /\ UNCHANGED scraper_vars
    /\ UNCHANGED proposal_vars

\* lines 136-155: no publications, the report is built here and returned
ReturnNoPublications ==
    /\ pc = "searched"
    /\ publications = <<>>
    /\ report' = no_publications_report
    /\ landscape_map' = <<>>
    /\ pc' = "done"
    /\ UNCHANGED <<raw_similarities, api_key, proposal_branch, publications, similarity_results,
                   overlap_ratings, verdict, confidence, response_text, raised>>
    /\ UNCHANGED <<encoder_vars, ranker_vars, svd_failed>>
    /\ UNCHANGED query_results
    /\ UNCHANGED scraper_vars
    /\ UNCHANGED proposal_vars

\* steps 3-4: fetch_full_abstracts_batch (a no-op) and rank_publications:
\* encode_proposal calls get_model, then the scores the encoder gives (no
\* concepts: final_scores are the raw similarities)
RankPublications ==
    /\ pc = "searched"
    /\ publications # <<>>
    /\ \E outcome \in get_model_outcomes(_model) \ {"raise"} :
        /\ _model' = get_model_model(_model, outcome, MainThread, 1)
        /\ _model_name' = get_model_name(_model_name, outcome)
        /\ logged' = get_model_logged(logged, outcome)
        /\ loaded_models' =
                get_model_loaded(loaded_models, _model, outcome, MainThread, 1)
    /\ \E final_scores \in [DOMAIN publications -> RankScores] :
        /\ similarity_results' =
                rank_publications(publications, final_scores,
                                  SIMILARITY_TOP_K, SIMILARITY_THRESHOLD)
        /\ raw_similarities' = final_scores
    /\ pc' = "ranked"
    /\ UNCHANGED <<api_key, proposal_branch, publications, overlap_ratings,
                   verdict, confidence, response_text, report, landscape_map,
                   raised>>
    /\ UNCHANGED <<threads, ranker_vars, svd_failed>>
    /\ UNCHANGED query_results
    /\ UNCHANGED scraper_vars
    /\ UNCHANGED proposal_vars

\* step 4, encode_proposal: both loads of get_model raise, out of the run
EncodeRaises ==
    /\ pc = "searched"
    /\ publications # <<>>
    /\ "raise" \in get_model_outcomes(_model)
    /\ logged' = get_model_logged(logged, "raise")
    /\ raised' = "Exception"
    /\ pc' = "failed"
    /\ UNCHANGED <<raw_similarities, api_key, proposal_branch, publications,
                   similarity_results, overlap_ratings, verdict, confidence,
                   response_text, report, landscape_map>>
    /\ UNCHANGED <<_model, _model_name, threads, loaded_models, ranker_vars,
                   svd_failed>>
    /\ UNCHANGED query_results
    /\ UNCHANGED scraper_vars
    /\ UNCHANGED proposal_vars

\* analyze_uniqueness, lines 92-94: the key is missing
AnalyzeNoApiKey ==
    /\ pc = "ranked"
    /\ ~api_key
    /\ raised' = "ValueError"
    /\ pc' = "failed"
    /\ UNCHANGED <<raw_similarities, api_key, proposal_branch, publications, similarity_results,
                   overlap_ratings, verdict, confidence, response_text, report,
                   landscape_map>>
    /\ UNCHANGED <<encoder_vars, ranker_vars, svd_failed>>
    /\ UNCHANGED query_results
    /\ UNCHANGED scraper_vars
    /\ UNCHANGED proposal_vars

\* analyze_uniqueness, lines 96-103: the metrics, before the request
ComputeMetrics ==
    /\ pc = "ranked"
    /\ api_key
    /\ LET ratings == RateAll(similarity_results)
           v == compute_verdict(similarity_results, ratings, proposal_branch)
       IN  /\ overlap_ratings' = ratings
           /\ verdict' = v
           /\ confidence' \in compute_confidence(similarity_results, ratings, v)
    /\ pc' = "metrics"
    /\ UNCHANGED <<raw_similarities, api_key, proposal_branch, publications, similarity_results,
                   response_text, report, landscape_map, raised>>
    /\ UNCHANGED <<encoder_vars, ranker_vars, svd_failed>>
    /\ UNCHANGED query_results
    /\ UNCHANGED scraper_vars
    /\ UNCHANGED proposal_vars

\* analyze_uniqueness, lines 130-139: the response arrives
ReceiveResponse ==
    /\ pc = "metrics"
    /\ response_text' \in Responses
    /\ pc' = "responded"
    /\ UNCHANGED <<raw_similarities, api_key, proposal_branch, publications, similarity_results,
                   overlap_ratings, verdict, confidence, report, landscape_map,
                   raised>>
    /\ UNCHANGED <<encoder_vars, ranker_vars, svd_failed>>
    /\ UNCHANGED query_results
    /\ UNCHANGED scraper_vars
    /\ UNCHANGED proposal_vars

\* analyze_uniqueness, lines 142-155: json.loads raises JSONDecodeError
ReturnFallbackReport ==
    /\ pc = "responded"
    /\ ~json_loads_ok(response_text)
    /\ report' = fallback_report(similarity_results, verdict, confidence,
                                 response_text)
    /\ pc' = "analyzed"
    /\ UNCHANGED <<raw_similarities, api_key, proposal_branch, publications, similarity_results,
                   overlap_ratings, verdict, confidence, response_text,
                   landscape_map, raised>>
    /\ UNCHANGED <<encoder_vars, ranker_vars, svd_failed>>
    /\ UNCHANGED query_results
    /\ UNCHANGED scraper_vars
    /\ UNCHANGED proposal_vars

\* analyze_uniqueness, lines 209-212: .get on a value that is no dict
RaiseAttributeError ==
    /\ pc = "responded"
    /\ json_loads_ok(response_text)
    /\ gets_raise(parse_llm_response(response_text))
    /\ raised' = "AttributeError"
    /\ pc' = "failed"
    /\ UNCHANGED <<raw_similarities, api_key, proposal_branch, publications, similarity_results,
                   overlap_ratings, verdict, confidence, response_text, report,
                   landscape_map>>
    /\ UNCHANGED <<encoder_vars, ranker_vars, svd_failed>>
    /\ UNCHANGED query_results
    /\ UNCHANGED scraper_vars
    /\ UNCHANGED proposal_vars

\* analyze_uniqueness, lines 157-257: the report from the parsed object
ReturnParsedReport ==
    /\ pc = "responded"
    /\ json_loads_ok(response_text)
    /\ ~gets_raise(parse_llm_response(response_text))
    /\ report' = parsed_report(similarity_results, overlap_ratings, verdict,
                               confidence, parse_llm_response(response_text))
    /\ pc' = "analyzed"
    /\ UNCHANGED <<raw_similarities, api_key, proposal_branch, publications, similarity_results,
                   overlap_ratings, verdict, confidence, response_text,
                   landscape_map, raised>>
    /\ UNCHANGED <<encoder_vars, ranker_vars, svd_failed>>
    /\ UNCHANGED query_results
    /\ UNCHANGED scraper_vars
    /\ UNCHANGED proposal_vars

\* run_pipeline, lines 170-186: the total patched, the map computed, return
ReturnReport ==
    /\ pc = "analyzed"
    /\ report' = [report EXCEPT !.total_results_found = Len(publications)]
    /\ \E svd_raises \in BOOLEAN :
        /\ svd_failed' = svd_raises
        /\ \E order \in argsort_orders(Len(publications), svd_raises) :
            landscape_map' = compute_landscape_map(publications, raw_similarities,
                                                   SIMILARITY_THRESHOLD, order)
    /\ pc' = "done"
    /\ UNCHANGED <<raw_similarities, api_key, proposal_branch, publications, similarity_results,
                   overlap_ratings, verdict, confidence, response_text, raised>>
    /\ UNCHANGED <<encoder_vars, ranker_vars>>
    /\ UNCHANGED query_results
    /\ UNCHANGED scraper_vars
    /\ UNCHANGED proposal_vars

\* the value run_pipeline returns: (report, md, summary, landscape_map)
run_pipeline_returns == <<report, "md", "summary", landscape_map>>

\* a, b, c = value: ValueError unless value has as many items as names
unpack_raises(value, names) == Len(value) # names

\* cli.py line 80, main: report, markdown, summary = await run_pipeline(...)
MainUnpacks ==
    /\ pc = "done"
    /\ unpack_raises(run_pipeline_returns, 3)
    /\ raised' = "ValueError"
    /\ pc' = "main_raised"
    /\ UNCHANGED <<raw_similarities, api_key, proposal_branch, publications,
                   similarity_results, overlap_ratings, verdict, confidence,
                   response_text, report, landscape_map, svd_failed>>
    /\ UNCHANGED <<encoder_vars, ranker_vars, query_results, scraper_vars,
                   proposal_vars>>

\* api.py line 54, _run_explore: report, markdown, summary = await
\* run_pipeline(proposal)
RunExploreUnpacks ==
    /\ pc = "done"
    /\ unpack_raises(run_pipeline_returns, 3)
    /\ raised' = "ValueError"
    /\ pc' = "run_explore_raised"
    /\ UNCHANGED <<raw_similarities, api_key, proposal_branch, publications,
                   similarity_results, overlap_ratings, verdict, confidence,
                   response_text, report, landscape_map, svd_failed>>
    /\ UNCHANGED <<encoder_vars, ranker_vars, query_results, scraper_vars,
                   proposal_vars>>

Next ==
    \/ SearchAll
    \/ ReturnNoPublications
    \/ RankPublications
    \/ EncodeRaises
    \/ AnalyzeNoApiKey
    \/ ComputeMetrics
    \/ ReceiveResponse
    \/ ReturnFallbackReport
    \/ RaiseAttributeError
    \/ ReturnParsedReport
    \/ ReturnReport

Spec == Init /\ [][Next]_vars

\* a pipeline run called from an entry point
EntryNext ==
    \/ SearchAll
    \/ ReturnNoPublications
    \/ RankPublications
    \/ EncodeRaises
    \/ AnalyzeNoApiKey
    \/ ComputeMetrics
    \/ ReceiveResponse
    \/ ReturnFallbackReport
    \/ RaiseAttributeError
    \/ ReturnParsedReport
    \/ ReturnReport
    \/ MainUnpacks
    \/ RunExploreUnpacks

SpecEntry == Init /\ [][EntryNext]_vars

----------------------------------------------------------------------------
(* src/analysis/llm_client.py: the enrichment join as a function of the     *)
(* ranked results and the parsed response                                   *)

\* scores of the ranked results: 0.50, 0.70
JoinScores == {5000, 7000}

\* identifiers and titles the response gives: the identifiers of the
\* publications with and without the prefix and one of no publication; the
\* title of a publication in another case and one of no publication
JoinIds == {<<"1">>, <<"pub.", "1">>, <<"2">>, <<"pub.", "2">>, <<"9">>}
JoinTitles == {<<"x">>, <<"A">>}

\* most entries in the "comparisons" array of a response to the join
MaxEntries == 2

JoinEntries == {comp(id, title, "high", 9900) : id \in JoinIds, title \in JoinTitles}

JoinResponses ==
    {[lines |-> <<"json">>,
      doc |-> [type |-> "object", executive_summary |-> "summary",
               verdict |-> "UNIQUE", confidence |-> 99, comparisons |-> c]] :
        c \in SeqsUpTo(JoinEntries, MaxEntries)}

\* analyze_uniqueness at line 142: the results ranked, the metrics computed
\* and the response received
JoinInit ==
    /\ pc = "responded"
    /\ api_key = TRUE
    /\ proposal_branch = "navy"
    /\ \E hits \in SeqsUpTo(Documents, MaxHits) :
        /\ search_all(hits) # <<>>
        /\ publications = search_all(hits)
    /\ raw_similarities \in [DOMAIN publications -> JoinScores]
    /\ similarity_results =
            rank_publications(publications, raw_similarities,
                              SIMILARITY_TOP_K, SIMILARITY_THRESHOLD)
    /\ overlap_ratings = RateAll(similarity_results)
    /\ verdict = compute_verdict(similarity_results, overlap_ratings, proposal_branch)
    /\ confidence \in compute_confidence(similarity_results, overlap_ratings, verdict)
    /\ response_text \in JoinResponses
    /\ report = NoReport
    /\ landscape_map = <<>>
    /\ raised = "none"
    /\ _model = get_model_model(NoModel, "primary", MainThread, 1)
    /\ _model_name = get_model_name("", "primary")
    /\ logged = get_model_logged({}, "primary")
    /\ loaded_models = get_model_loaded({}, NoModel, "primary", MainThread, 1)
    /\ threads = <<>>
    /\ rank_call = NoRankCall
    /\ ranking = NoRanking
    /\ svd_failed = FALSE
    /\ pages = <<>>
    /\ url = <<>>
    /\ page_num = 0
    /\ scraped = <<>>
    /\ requested = <<>>
    /\ proposal = NoProposal
    /\ concepts = <<>>
    /\ queries = <<>>
    /\ query_results = <<>>

JoinNext == ReturnParsedReport

SpecJoin == JoinInit /\ [][JoinNext]_vars

----------------------------------------------------------------------------
(* src/scraper/dimensions.py: search, one query paginated.  A URL is the    *)
(* pair of its base and its path; the server answers by path.               *)

MAX_PAGES == 5

DTIC_BASE_URL == "https://dtic.dimensions.ai"

\* the path of the search URL and the path of a further page
SearchPath == "/discover/publication/results.json?search_text=q"
NextPath == "/discover/publication/results.json?np=2"
Paths == {SearchPath, NextPath}

\* _build_search_url(query.text)
build_search_url == <<DTIC_BASE_URL, SearchPath>>

\* most documents in the "docs" of one page
MaxPageDocs == 1

\* the documents of a page: one with an id and one without
PageDocuments == {d \in Documents : d.id \in {<<"pub.", "1">>, <<>>}}

\* data["navigation"]: the key is absent, its value is null, or it is an
\* object whose "results_json" is absent or "" (<<>>), a path ("/...") or a
\* whole URL
NoLink == <<>>
Navigations ==
    {[kind |-> "absent", results_json |-> NoLink],
     [kind |-> "null", results_json |-> NoLink]}
        \cup [kind : {"object"},
              results_json : {NoLink} \cup {<<p>> : p \in Paths}
                                \cup {<<DTIC_BASE_URL, p>> : p \in Paths}]

\* what the server answers to a request: client.get or raise_for_status
\* raises httpx.HTTPError; resp.json() raises ValueError; the body is a JSON
\* array that is not empty; the body is a JSON object
PageResponses ==
    [kind : {"HTTPError", "ValueError", "array"}, docs : {<<>>},
     navigation : {[kind |-> "absent", results_json |-> NoLink]}]
        \cup [kind : {"object"}, docs : SeqsUpTo(PageDocuments, MaxPageDocs),
              navigation : Navigations]

\* lines 126-135: _fetch_page returns None when the request or the decoding
\* of the body raises
fetch_fails(response) == response.kind \in {"HTTPError", "ValueError"}

\* data.get and nav.get raise AttributeError on a value that is no dict
get_raises(response) ==
    \/ response.kind = "array"
    \/ response.kind = "object" /\ response.docs # <<>>
            /\ response.navigation.kind = "null"

\* the loop runs for every page_num of range(MAX_PAGES)
range_never_exhausted(n) == FALSE

\* for page_num in range(MAX_PAGES): no page_num is left
range_exhausted(n) == n >= MAX_PAGES

\* lines 163-166: a relative next_url is put after the base
next_page_url(next_url) ==
    IF Head(next_url) # DTIC_BASE_URL THEN <<DTIC_BASE_URL>> \o next_url
    ELSE next_url

ScrapeInit ==
    /\ pc = "search_loop"
    /\ pages \in [Paths -> PageResponses]
    /\ url = build_search_url
    /\ page_num = 0
    /\ scraped = <<>>
    /\ requested = <<>>
    /\ api_key = FALSE
    /\ proposal_branch = NoValue
    /\ publications = <<>>
    /\ similarity_results = <<>>
    /\ overlap_ratings = <<>>
    /\ verdict = NoValue
    /\ confidence = NoValue
    /\ response_text = NoResponse
    /\ report = NoReport
    /\ raw_similarities = <<>>
    /\ landscape_map = <<>>
    /\ raised = "none"
    /\ _model = NoModel
    /\ _model_name = ""
    /\ threads = <<>>
    /\ logged = {}
    /\ loaded_models = {}
    /\ rank_call = NoRankCall
    /\ ranking = NoRanking
    /\ svd_failed = FALSE
    /\ proposal = NoProposal
    /\ concepts = <<>>
    /\ queries = <<>>
    /\ query_results = <<>>

not_scraper_vars ==
    <<api_key, proposal_branch, publications, similarity_results,
      overlap_ratings, verdict, confidence, response_text, report,
      raw_similarities, landscape_map, encoder_vars, ranker_vars,
      svd_failed, proposal_vars, query_results>>

\* lines 144-146: _fetch_page returns None, break, return publications
FetchFails ==
    /\ pc = "search_loop"
    /\ ~range_exhausted(page_num)
    /\ fetch_fails(pages[url[2]])
    /\ requested' = Append(requested, url)
    /\ pc' = "search_returned"
    /\ UNCHANGED <<pages, url, page_num, scraped, raised, not_scraper_vars>>

\* lines 148-150: the page has no docs, break, return publications
FetchNoDocs ==
    /\ pc = "search_loop"
    /\ ~range_exhausted(page_num)
    /\ pages[url[2]].kind = "object"
    /\ pages[url[2]].docs = <<>>
    /\ requested' = Append(requested, url)
    /\ pc' = "search_returned"
    /\ UNCHANGED <<pages, url, page_num, scraped, raised, not_scraper_vars>>

\* lines 148, 157-158: data.get or nav.get raises AttributeError
FetchRaises ==
    /\ pc = "search_loop"
    /\ ~range_exhausted(page_num)
    /\ get_raises(pages[url[2]])
    /\ requested' = Append(requested, url)
    /\ scraped' = scraped \o pages[url[2]].docs
    /\ raised' = "AttributeError"
    /\ pc' = "search_raised"
    /\ UNCHANGED <<pages, url, page_num, not_scraper_vars>>

\* lines 152-160: the docs are parsed and appended, there is no next_url,
\* break, return publications
FetchLastPage ==
    /\ pc = "search_loop"
    /\ ~range_exhausted(page_num)
    /\ pages[url[2]].kind = "object"
    /\ pages[url[2]].docs # <<>>
    /\ pages[url[2]].navigation.kind # "null"
    /\ pages[url[2]].navigation.results_json = NoLink
    /\ requested' = Append(requested, url)
    /\ scraped' = scraped \o pages[url[2]].docs
    /\ pc' = "search_returned"
    /\ UNCHANGED <<pages, url, page_num, raised, not_scraper_vars>>

\* lines 152-166: the docs are parsed and appended and the loop goes on with
\* the next URL
FetchNextPage ==
    /\ pc = "search_loop"
    /\ ~range_exhausted(page_num)
    /\ pages[url[2]].kind = "object"
    /\ pages[url[2]].docs # <<>>
    /\ pages[url[2]].navigation.kind = "object"
    /\ pages[url[2]].navigation.results_json # NoLink
    /\ requested' = Append(requested, url)
    /\ scraped' = scraped \o pages[url[2]].docs
    /\ url' = next_page_url(pages[url[2]].navigation.results_json)
    /\ page_num' = page_num + 1
    /\ UNCHANGED <<pc, pages, raised, not_scraper_vars>>

\* lines 142, 168-171: range(MAX_PAGES) is exhausted, return publications
LoopExhausted ==
    /\ pc = "search_loop"
    /\ range_exhausted(page_num)
    /\ pc' = "search_returned"
    /\ UNCHANGED <<pages, url, page_num, scraped, requested, raised,
                   not_scraper_vars>>

ScrapeNext ==
    \/ FetchFails
    \/ FetchNoDocs
    \/ FetchRaises
    \/ FetchLastPage
    \/ FetchNextPage
    \/ LoopExhausted

SpecScrape == ScrapeInit /\ [][ScrapeNext]_vars

----------------------------------------------------------------------------
(* src/embeddings/similarity.py: _extract_concepts.  A text is a sequence  *)
(* of tokens: a letter, " " (whitespace) or "," (punctuation).             *)

\* the k-th smallest element of a set of numbers
nth(S, k) == CHOOSE i \in S : Cardinality({j \in S : j < i}) = k - 1

\* the maximal runs of tokens of s that are not in separators, in order
runs(s, separators) ==
    LET starts == {i \in DOMAIN s :
                      s[i] \notin separators /\ (i = 1 \/ s[i - 1] \in separators)}
        end_of(i) == CHOOSE j \in i..Len(s) :
                        /\ \A k \in i..j : s[k] \notin separators
                        /\ (j = Len(s) \/ s[j + 1] \in separators)
    IN  [k \in 1..Cardinality(starts) |->
            SubSeq(s, nth(starts, k), end_of(nth(starts, k)))]

\* str.split(): the maximal runs of tokens that are not whitespace
split(s) == runs(s, {" "})

\* re.findall(r"\b[a-zA-Z0-9][\w-]*\b", s): the maximal runs of letters;
\* neither [a-zA-Z0-9] nor \w matches " " or ","
findall_words(s) == runs(s, {" ", ","})

\* " ".join(words[i:])
RECURSIVE join_from(_, _)
join_from(words, i) ==
    IF i > Len(words) THEN <<>>
    ELSE IF i = Len(words) THEN words[i]
    ELSE words[i] \o <<" ">> \o join_from(words, i + 1)

\* " ".join(words)
join(words) == join_from(words, 1)

\* lines 38-52: the stopwords that are spelled with the letters of the texts
_STOPWORDS ==
    {<<"a">>, <<"a", "s">>, <<"w", "a", "s">>, <<"h", "a", "s">>,
     <<"t", "h", "e">>}

\* a or b, for strings
or_else(a, b) == IF a # <<>> THEN a ELSE b

\* lines 68-72: the loops over the words of the texts.  A word is appended
\* when it passes the three tests; seen then holds it, so of the words that
\* pass, the first occurrences outside seen are appended, in order
add_words(words, concepts_, seen) ==
    LET appended == {i \in DOMAIN words :
                        /\ words[i] \notin _STOPWORDS
                        /\ Len(words[i]) >= 3
                        /\ words[i] \notin seen
                        /\ \A j \in 1..(i - 1) : words[j] # words[i]}
    IN  concepts_ \o [k \in 1..Cardinality(appended) |-> words[nth(appended, k)]]

\* the words a keyword adds to seen: w.lower() for w in kw.split()
keyword_words(keywords) ==
    {lower(w) : w \in UNION {{split(keywords[i])[j] : j \in DOMAIN split(keywords[i])} :
                                i \in DOMAIN keywords}}

\* lines 55-74: _extract_concepts(proposal)
_extract_concepts(p) ==
    LET description == or_else(p.topic_description, p.abstract)
        words == findall_words(lower(description)) \o findall_words(lower(p.title))
        all == add_words(words, p.keywords, keyword_words(p.keywords))
    IN  SubSeq(all, 1, Min(20, Len(all)))

----------------------------------------------------------------------------
(* src/pipeline.py: generate_search_queries                                 *)

SearchQuery(text, strategy) == [text |-> text, strategy |-> strategy]

\* the excerpt made of a description of any length
description_queries_always_excerpt(p) ==
    LET description == or_else(p.topic_description, p.abstract)
        desc_words == split(description)
    IN  IF description # <<>> /\ lower(strip(description)) # lower(strip(p.title))
        THEN <<SearchQuery(join(SubSeq(desc_words, 1, Min(40, Len(desc_words)))),
                           "topic_excerpt")>>
        ELSE <<>>

\* lines 28-38: the query made of the description
description_queries(p) ==
    LET description == or_else(p.topic_description, p.abstract)
        desc_words == split(description)
    IN  IF description # <<>> /\ lower(strip(description)) # lower(strip(p.title))
        THEN IF Len(desc_words) <= 40
             THEN <<SearchQuery(description, "description")>>
             ELSE <<SearchQuery(join(SubSeq(desc_words, 1, 40)), "topic_excerpt")>>
        ELSE <<>>

\* lines 40-52: the queries made of the keywords
keyword_queries(p) ==
    IF p.keywords # <<>>
    THEN <<SearchQuery(join(p.keywords), "keywords"),
           SearchQuery(p.title \o <<" ">>
                          \o join(SubSeq(p.keywords, 1, Min(5, Len(p.keywords)))),
                       "combined")>>
    ELSE <<>>

\* lines 21-54: generate_search_queries(proposal)
generate_search_queries(p) ==
    <<SearchQuery(p.title, "title")>> \o description_queries(p) \o keyword_queries(p)

----------------------------------------------------------------------------
(* The functions of a proposal (_extract_concepts, generate_search_queries) *)
(* over their argument                                                      *)

\* number of distinct words of the long text: one over the cap of concepts
MaxDistinct == 21

Letters == <<"a", "r", "s">>

\* the i-th of the 27 words of three letters
Word(i) ==
    <<Letters[(((i - 1) \div 9) % 3) + 1], Letters[(((i - 1) \div 3) % 3) + 1],
      Letters[((i - 1) % 3) + 1]>>

\* n words, the first 27 of them distinct
Words(n) == [i \in 1..n |-> Word(((i - 1) % 27) + 1)]

\* "Sar", "the sar", "was" and the long text
Titles ==
    {<<"S", "a", "r">>, <<"t", "h", "e", " ", "s", "a", "r">>,
     <<"w", "a", "s">>, join(Words(MaxDistinct))}

\* number of words of the longest description: one over the 40 of an excerpt
MaxDescriptionWords == 41

\* "", "Sar, ras as", " SAR ", the long text, and texts of 40 words and of
\* one more
Descriptions ==
    {<<>>, <<"S", "a", "r", ",", " ", "r", "a", "s", " ", "a", "s">>,
     <<" ", "S", "A", "R", " ">>, join(Words(MaxDistinct)),
     join(Words(MaxDescriptionWords - 1)), join(Words(MaxDescriptionWords))}

\* "", "rar the"
Abstracts == {<<>>, <<"r", "a", "r", " ", "t", "h", "e">>}

\* "Sar", "sar", "as", "ras sar"
KeywordPhrases ==
    {<<"S", "a", "r">>, <<"s", "a", "r">>, <<"a", "s">>,
     <<"r", "a", "s", " ", "s", "a", "r">>}

\* most keywords of a proposal, the long list apart
MaxKeywords == 2

KeywordLists == SeqsUpTo(KeywordPhrases, MaxKeywords) \cup {Words(MaxDistinct)}

Proposals ==
    [title : Titles, topic_description : Descriptions, abstract : Abstracts,
     keywords : KeywordLists]

not_proposal_vars ==
    <<api_key, proposal_branch, publications, similarity_results,
      overlap_ratings, verdict, confidence, response_text, report,
      raw_similarities, landscape_map, raised, encoder_vars, ranker_vars,
      svd_failed, query_results,
      pages, url, page_num, scraped, requested>>

ProposalInit ==
    /\ pc = "proposal_args"
    /\ proposal \in Proposals
    /\ concepts = <<>>
    /\ queries = <<>>
    /\ api_key = FALSE
    /\ proposal_branch = NoValue
    /\ publications = <<>>
    /\ similarity_results = <<>>
    /\ overlap_ratings = <<>>
    /\ verdict = NoValue
    /\ confidence = NoValue
    /\ response_text = NoResponse
    /\ report = NoReport
    /\ raw_similarities = <<>>
    /\ landscape_map = <<>>
    /\ raised = "none"
    /\ _model = NoModel
    /\ _model_name = ""
    /\ threads = <<>>
    /\ logged = {}
    /\ loaded_models = {}
    /\ rank_call = NoRankCall
    /\ ranking = NoRanking
    /\ svd_failed = FALSE
    /\ pages = <<>>
    /\ url = <<>>
    /\ page_num = 0
    /\ scraped = <<>>
    /\ requested = <<>>
    /\ query_results = <<>>

\* concepts = _extract_concepts(proposal)
ExtractConcepts ==
    /\ pc = "proposal_args"
    /\ concepts' = _extract_concepts(proposal)
    /\ pc' = "extracted"
    /\ UNCHANGED <<proposal, queries, not_proposal_vars>>

\* queries = generate_search_queries(proposal)
GenerateSearchQueries ==
    /\ pc = "proposal_args"
    /\ queries' = generate_search_queries(proposal)
    /\ pc' = "generated"
    /\ UNCHANGED <<proposal, concepts, not_proposal_vars>>

ProposalNext == ExtractConcepts \/ GenerateSearchQueries

SpecProposal == ProposalInit /\ [][ProposalNext]_vars

----------------------------------------------------------------------------
(* Scoring engine: properties                                              *)

HighIndices == {i \in DOMAIN overlap_ratings : overlap_ratings[i] = "high"}
MediumIndices == {i \in DOMAIN overlap_ratings : overlap_ratings[i] = "medium"}
LowIndices == {i \in DOMAIN overlap_ratings : overlap_ratings[i] = "low"}

Shares(i) ==
    proposal_branch \in similarity_results[i].publication.detected_branches

OnlyHighOtherBranch ==
    /\ pc = "verdict"
    /\ Cardinality(HighIndices) = 1
    /\ \A i \in HighIndices :
            /\ similarity_results[i].similarity_score = 7000
            /\ similarity_results[i].publication.detected_branches # {}
            /\ ~Shares(i)

RatingOrder(r) == IF r = "low" THEN 0 ELSE IF r = "medium" THEN 1 ELSE 2

\* C3: the rating of s is "high" if s >= 0.60, else "medium" if s >= 0.45, else
\* "low"; it is monotonic non-decreasing in s, and 0.60 is "high", 0.45 is
\* "medium", 0.4499 is "low".
C3_RatingThresholds ==
    pc = "rated" =>
        /\ Len(overlap_ratings) = Len(similarity_results)
        /\ \A i \in DOMAIN similarity_results :
            LET s == similarity_results[i].similarity_score
                r == overlap_ratings[i]
            IN  /\ (r = "high") <=> (s >= 6000)
                /\ (r = "medium") <=> (s >= 4500 /\ s < 6000)
                /\ (r = "low") <=> (s < 4500)
                /\ s = 6000 => r = "high"
                /\ s = 4500 => r = "medium"
                /\ s = 4499 => r = "low"
        /\ \A i, j \in DOMAIN similarity_results :
            similarity_results[i].similarity_score
                    <= similarity_results[j].similarity_score
                => RatingOrder(overlap_ratings[i]) <= RatingOrder(overlap_ratings[j])

\* the two sides of the medium boundary, rated
C3_Witness ==
    /\ pc = "rated"
    /\ \E i, j \in DOMAIN similarity_results :
        /\ similarity_results[i].similarity_score = 4499
        /\ overlap_ratings[i] = "low"
        /\ similarity_results[j].similarity_score = 4500
        /\ overlap_ratings[j] = "medium"

\* C4: with no "high" rating, one medium result of the proposal's branch gives
\* NEEDS_REVIEW, even when other medium results are of another branch.
C4_MediumSameBranchIsNeedsReview ==
    (pc = "verdict" /\ HighIndices = {} /\ \E i \in MediumIndices : Shares(i))
        => verdict = "NEEDS_REVIEW"

C4_Witness ==
    /\ pc = "verdict"
    /\ HighIndices = {}
    /\ \E i, j \in MediumIndices : Shares(i) /\ ~Shares(j)
    /\ verdict = "NEEDS_REVIEW"

\* C5: with no "high" rating, some "medium" rating, and no medium result of
\* the proposal's branch, the verdict is NAVY_UNIQUE (the code's name for
\* BRANCH_OPPORTUNITY), even if a low result is of the proposal's branch.
C5_MediumOtherBranchIsNavyUnique ==
    (pc = "verdict" /\ HighIndices = {} /\ MediumIndices # {}
        /\ \A i \in MediumIndices : ~Shares(i))
        => verdict = "NAVY_UNIQUE"

C5_Witness ==
    /\ pc = "verdict"
    /\ HighIndices = {}
    /\ MediumIndices # {}
    /\ \A i \in MediumIndices : ~Shares(i)
    /\ \E i \in LowIndices : Shares(i)
    /\ verdict = "NAVY_UNIQUE"

\* C6: the verdict is UNIQUE for an empty result list and for a list in which
\* no rating is "high" or "medium", whatever the branches.
C6_EmptyOrAllLowIsUnique ==
    (pc = "verdict"
        /\ (similarity_results = <<>> \/ (HighIndices = {} /\ MediumIndices = {})))
        => verdict = "UNIQUE"

\* every result low, one of them of the proposal's branch
C6_Witness ==
    /\ pc = "verdict"
    /\ similarity_results # <<>>
    /\ LowIndices = DOMAIN overlap_ratings
    /\ \E i \in LowIndices : Shares(i)
    /\ verdict = "UNIQUE"

\* C7: for every input compute_confidence returns v with 0.10 <= v <= 0.99.
C7_ConfidenceRange ==
    pc = "confidence" => (confidence >= 10 /\ confidence <= 99)

\* UNIQUE handed for a score of 1.50: the sum is negative and the clamp raises
\* it to 0.10
C7_Witness ==
    /\ pc = "confidence"
    /\ similarity_results # <<>>
    /\ confidence_ticks(similarity_results, overlap_ratings, verdict) < 0
    /\ verdict # compute_verdict(similarity_results, overlap_ratings, "navy")
    /\ confidence = 10

----------------------------------------------------------------------------
(* Pipeline and narrative enrichment: properties                            *)

\* C8: when retrieval returns no publication, run_pipeline returns a report
\* with verdict UNIQUE, confidence 0.50, no comparisons, total_results_found
\* = 0 and results_analyzed = 0, and an empty landscape map, and raises nothing.
C8_NoPublicationsReport ==
    (pc # "start" /\ publications = <<>>) =>
        /\ raised = "none"
        /\ pc \in {"searched", "done"}
        /\ pc = "done" =>
            /\ report.kind = "report"
            /\ report.verdict = "UNIQUE"
            /\ report.confidence = 50
            /\ report.comparisons = <<>>
            /\ report.total_results_found = 0
            /\ report.results_analyzed = 0
            /\ landscape_map = <<>>

\* the run has returned from an empty search (here without an API key)
C8_Witness ==
    /\ pc = "done"
    /\ publications = <<>>
    /\ ~api_key
    /\ report.kind = "report"
    /\ report.confidence = 50

\* analyze_uniqueness has returned a report
AnalysisReturned == pc \in {"analyzed", "done"} /\ publications # <<>>

UniqueIds(results) ==
    \A i, j \in DOMAIN results :
        results[i].publication.id = results[j].publication.id => i = j

\* C9: the verdict, the confidence and every comparison's overlap_rating and
\* similarity_score in the report of analyze_uniqueness do not depend on the
\* response: verdict and confidence are the values computed from the results
\* before the request, and a comparison matched to a result r (ids unique)
\* shows r's score and compute_overlap_rating of it, whatever the response
\* asserts.
C9_MetricsNotFromResponse ==
    AnalysisReturned =>
        /\ report.verdict = verdict
        /\ report.confidence = confidence
        /\ report.verdict =
              compute_verdict(similarity_results, RateAll(similarity_results),
                              proposal_branch)
        /\ report.confidence \in
              compute_confidence(similarity_results, RateAll(similarity_results),
                                 report.verdict)
        /\ \A k \in DOMAIN report.comparisons :
              LET comp_data == response_text.doc.comparisons[k]
                  i == find_sr(similarity_results, comp_data.publication_id,
                               comp_data.title)
              IN  (UniqueIds(similarity_results) /\ i # 0) =>
                    /\ report.comparisons[k].similarity_score
                          = similarity_results[i].similarity_score
                    /\ report.comparisons[k].overlap_rating
                          = compute_overlap_rating(
                                similarity_results[i].similarity_score)

\* a returned report with a matched comparison for which the response asserts
\* another rating and another score, and another verdict than the computed one
C9_Witness ==
    /\ pc = "done"
    /\ publications # <<>>
    /\ report.executive_summary.kind = "narrative"
    /\ response_text.doc.verdict # report.verdict
    /\ response_text.doc.confidence # report.confidence
    /\ \E k \in DOMAIN report.comparisons :
        LET comp_data == response_text.doc.comparisons[k]
            i == find_sr(similarity_results, comp_data.publication_id,
                         comp_data.title)
        IN  /\ i # 0
            /\ comp_data.asserted.overlap_rating
                  # report.comparisons[k].overlap_rating
            /\ comp_data.asserted.similarity_score
                  # report.comparisons[k].similarity_score

\* the response is not the expected JSON object: it is no JSON, or JSON that
\* is no object, or an object whose "comparisons" hold a value that is no object
Malformed(text) ==
    IF ~json_loads_ok(text) THEN TRUE ELSE gets_raise(parse_llm_response(text))

\* C10: for every malformed response analyze_uniqueness raises nothing and
\* returns a report with the computed verdict and confidence, an executive
\* summary holding the raw response text, and no comparisons.
C10_MalformedFallsBack ==
    (pc \in {"analyzed", "failed", "done"} /\ response_text # NoResponse
        /\ Malformed(response_text)) =>
        /\ raised = "none"
        /\ report.kind = "report"
        /\ report.verdict = verdict
        /\ report.confidence = confidence
        /\ report.executive_summary = [kind |-> "unparsed", raw |-> response_text]
        /\ report.comparisons = <<>>

----------------------------------------------------------------------------
(* Configuration, encoder, ranker, join, retrieval, landscape: properties   *)

\* C11: with ANTHROPIC_API_KEY missing a run fails before any work begins: no
\* search request is issued, no embedding model is loaded and no ranking is
\* computed before the failure, on every run, the runs that retrieve no
\* publication included; so without the key a run is at its start or has
\* failed with the missing-key error, and nothing has been searched, loaded
\* or ranked.
C11_NoKeyFailsBeforeWork ==
    ~api_key =>
        /\ pc \in {"start", "failed"}
        /\ pc = "failed" => raised = "ValueError"
        /\ publications = <<>>
        /\ similarity_results = <<>>
        /\ loaded_models = {}
        /\ logged = {}

\* C12: the embedding model is loaded at most once per process: no call after
\* a successful one loads again, and of several threads that call get_model
\* before the first load has completed one performs the load and the others
\* receive that same model; so at most one model object is ever constructed
\* and every call that has returned has returned the same object.
C12_LoadedOnce ==
    pc = "encoder" =>
        /\ Cardinality(loaded_models) <= 1
        /\ \A t, u \in Callers :
            (threads[t].returned # NoModel /\ threads[u].returned # NoModel)
                => threads[t].returned = threads[u].returned

\* no other thread has called get_model
Alone(t) == \A u \in Callers \ {t} : threads[u].calls = 0

\* C13: in get_model, when the primary load raises a warning is logged and the
\* fallback is loaded; when the fallback load succeeds it is the cached model
\* and its name is the recorded name; when the fallback load raises too the
\* exception leaves get_model and no model is cached.  (For a caller whose
\* call overlaps no other thread's.)
C13_FallbackOnPrimaryFailure ==
    pc = "encoder" =>
        \A t \in Callers :
            /\ threads[t].pc \in {"load_fallback", "name_fallback", "raised"}
                    => WarningLine(EMBEDDING_MODEL) \in logged
            /\ (Alone(t) /\ threads[t].pc = "name_fallback")
                    => _model = SentenceTransformer(FALLBACK_EMBEDDING_MODEL, t,
                                                    threads[t].calls)
            /\ (Alone(t) /\ threads[t].pc \in {"return", "idle"}
                    /\ _model.name = FALLBACK_EMBEDDING_MODEL)
                    => /\ _model_name = FALLBACK_EMBEDDING_MODEL
                       /\ WarningLine(EMBEDDING_MODEL) \in logged
                       /\ threads[t].pc = "idle" => threads[t].returned = _model
            /\ (Alone(t) /\ threads[t].pc = "raised")
                    => /\ _model = NoModel
                       /\ _model_name = ""
                       /\ loaded_models = {}

\* both loads of the only caller have raised: the warning is logged and
\* nothing is cached
C13_Witness ==
    /\ pc = "encoder"
    /\ Alone(1)
    /\ threads[1].pc = "raised"
    /\ WarningLine(EMBEDDING_MODEL) \in logged
    /\ _model = NoModel

\* rank_publications has returned
Ranked == pc \in {"ranked", "mapped"} /\ ranking # NoRanking

\* C14: in the output of rank_publications(proposal, publications, top_k,
\* threshold) no result has a composite score below threshold, there are at
\* most top_k results, and their ranks in order are 1, 2, ..., N, the order
\* being that of descending score.
C14_RankerFilter ==
    Ranked =>
        LET results == ranking.results
        IN  /\ \A i \in DOMAIN results :
                    results[i].similarity_score >= rank_call.threshold
            /\ Len(results) <= rank_call.top_k
            /\ \A i \in DOMAIN results : results[i].rank = i
            /\ \A i, j \in DOMAIN results :
                    i < j => results[i].similarity_score
                                >= results[j].similarity_score

\* of two publications the first is under the threshold and filtered out, and
\* the second is the result of rank 1
C14_Witness ==
    /\ pc = "ranked"
    /\ Len(publications) = 2
    /\ rank_call.top_k >= 2
    /\ rank_call.threshold = SIMILARITY_THRESHOLD
    /\ final_scores_of(raw_similarities, rank_call.concept_scores)[1]
            < rank_call.threshold
    /\ Len(ranking.results) = 1
    /\ ranking.results[1].publication = publications[2]
    /\ ranking.results[1].rank = 1

\* 0.75 * max(holistic, 0) + 0.25 * max(concept, 0), in 1/10000ths
weighted_combination(holistic, concept) ==
    (7500 * Max(holistic, 0) + 2500 * Max(concept, 0)) \div 10000

\* the index of a result's publication in the list ranked
index_of(pubs, pub) == CHOOSE i \in DOMAIN pubs : pubs[i] = pub

\* C15: with concepts the composite score of a publication is
\* 0.75 * max(holistic, 0) + 0.25 * max(concept, 0); without concepts it is
\* the holistic score, unclipped.
C15_WeightedComposite ==
    Ranked =>
        \A k \in DOMAIN ranking.results :
            LET i == index_of(publications, ranking.results[k].publication)
            IN  ranking.results[k].similarity_score =
                    IF rank_call.concept_scores # None
                    THEN weighted_combination(raw_similarities[i],
                                              rank_call.concept_scores[i])
                    ELSE raw_similarities[i]

\* rank_publications has been called with no publication
RankedNone == pc # "rank_args" /\ publications = <<>>

\* the encoder is as it was before the call: nothing loaded, nothing logged
EncoderUntouched ==
    /\ logged = {}
    /\ _model \in {NoModel, LoadedBefore}
    /\ loaded_models \subseteq {LoadedBefore}

PrefixVariant(a, b) == a = <<"pub.">> \o b \/ b = <<"pub.">> \o a

\* the results whose id is the response's identifier with the prefix added or
\* removed, where no result has the identifier itself
PrefixVariants(results, pub_id) ==
    IF \E i \in DOMAIN results : results[i].publication.id = pub_id THEN {}
    ELSE {i \in DOMAIN results : PrefixVariant(results[i].publication.id, pub_id)}

\* C17: when the identifier the response gives differs from the id of a
\* result only by the prefix "pub." added or removed ("pub.123" by "123",
\* "123" by "pub.123"), the comparison is joined to that result, whatever the
\* title the response gives: it carries that result's url, year, branches and
\* score.
C17_PrefixJoin ==
    (pc = "analyzed" /\ report # NoReport) =>
        \A k \in DOMAIN report.comparisons :
            LET comp_data == response_text.doc.comparisons[k]
            IN  \A i \in PrefixVariants(similarity_results, comp_data.publication_id) :
                    LET sr == similarity_results[i]
                    IN  /\ report.comparisons[k].url = sr.publication.url
                        /\ report.comparisons[k].pub_year = sr.publication.pub_year
                        /\ report.comparisons[k].funding_branches
                                = sr.publication.detected_branches
                        /\ report.comparisons[k].similarity_score = sr.similarity_score

\* the response names "2" under the title of another result; the comparison
\* is joined to the result "pub.2"
C17_Witness ==
    /\ pc = "analyzed"
    /\ report # NoReport
    /\ \E k \in DOMAIN report.comparisons :
        LET comp_data == response_text.doc.comparisons[k]
        IN  /\ comp_data.publication_id = <<"2">>
            /\ \E i, j \in DOMAIN similarity_results :
                /\ i # j
                /\ similarity_results[i].publication.id = <<"pub.", "2">>
                /\ norm_title(similarity_results[j]) = lower(comp_data.title)
                /\ report.comparisons[k].url = similarity_results[i].publication.url

\* no strategy of the join finds a result for the entry: not its identifier as
\* given, stripped of the prefix or with the prefix added, against the ids of
\* the results as they are or stripped of the prefix; not its title, equal to
\* or part of a result's title or holding it, whatever the case
TotalMiss(results, comp_data) ==
    LET pid == strip(comp_data.publication_id)
        bare == strip(replace_pub(pid))
        norm == lower(strip(comp_data.title))
    IN  \A i \in DOMAIN results :
            /\ {pid, bare, <<"pub.">> \o bare}
                    \cap {full_id(results[i]), bare_id(results[i])} = {}
            /\ \/ norm = <<>>
               \/ norm_title(results[i]) = <<>>
               \/ /\ ~contains(norm_title(results[i]), norm)
                  /\ ~contains(norm, norm_title(results[i]))

\* C18: every entry of the parsed "comparisons" array yields one
\* PublicationComparison in the report, in the same order (the two lists have
\* the same length, and the k-th comparison carries the k-th entry's
\* identifier and title); an entry that no strategy matches to a result is
\* emitted with url "", pub_year None, no funding branches, similarity_score
\* 0.0 and overlap_rating "low".
C18_EveryEntryEmitted ==
    (pc = "analyzed" /\ report # NoReport) =>
        LET entries == response_text.doc.comparisons
        IN  /\ Len(report.comparisons) = Len(entries)
            /\ \A k \in DOMAIN entries :
                /\ report.comparisons[k].publication_id = entries[k].publication_id
                /\ report.comparisons[k].title = entries[k].title
                /\ TotalMiss(similarity_results, entries[k]) =>
                    /\ report.comparisons[k].url = <<>>
                    /\ report.comparisons[k].pub_year = <<>>
                    /\ report.comparisons[k].funding_branches = {}
                    /\ report.comparisons[k].similarity_score = 0
                    /\ report.comparisons[k].overlap_rating = "low"

\* two entries: the first matches no result and is emitted with the defaults,
\* the second is joined to a result
C18_Witness ==
    /\ pc = "analyzed"
    /\ report # NoReport
    /\ Len(report.comparisons) = 2
    /\ TotalMiss(similarity_results, response_text.doc.comparisons[1])
    /\ report.comparisons[1].url = <<>>
    /\ report.comparisons[1].overlap_rating = "low"
    /\ ~TotalMiss(similarity_results, response_text.doc.comparisons[2])
    /\ report.comparisons[2].url # <<>>
    /\ report.comparisons[2].publication_id
            # report.comparisons[1].publication_id

\* the index of the first publication of a list with the id
FirstIndex(pubs, id) == First({i \in DOMAIN pubs : pubs[i].id = id})

\* C19: in the list search_all returns no two publications have the same id
\* and none has an empty id; the publication kept for an id is the first with
\* that id in the order of the queries and, within a query, of its results;
\* every non-empty id returned is kept, and the kept publications are in the
\* order of their first occurrences.
C19_SearchAllDeduplicates ==
    pc = "searched" =>
        LET hits == flatten(query_results)
        IN  /\ \A i, j \in DOMAIN publications :
                    publications[i].id = publications[j].id => i = j
            /\ \A i \in DOMAIN publications : publications[i].id # <<>>
            /\ {publications[i].id : i \in DOMAIN publications}
                    = {hits[i].id : i \in DOMAIN hits} \ {<<>>}
            /\ \A i \in DOMAIN publications :
                    publications[i] = hits[FirstIndex(hits, publications[i].id)]
            /\ \A i, j \in DOMAIN publications :
                    i < j => FirstIndex(hits, publications[i].id)
                                < FirstIndex(hits, publications[j].id)

\* the first query returns a publication and one without id, the second
\* another publication under the first one's id and a new one: the first
\* query's first and the new one are kept
C19_Witness ==
    /\ pc = "searched"
    /\ Len(query_results[1]) = 2
    /\ Len(query_results[2]) = 2
    /\ query_results[1][2].id = <<>>
    /\ query_results[2][1].id = query_results[1][1].id
    /\ query_results[2][1] # query_results[1][1]
    /\ query_results[2][2].id \notin {<<>>, query_results[1][1].id}
    /\ publications = <<query_results[1][1], query_results[2][2]>>

\* C20: when the decomposition behind the projection fails (np.linalg.svd
\* raises LinAlgError), _compute_landscape_map returns an empty point list and
\* raises nothing.
C20_DegenerateProjectionIsEmpty ==
    (pc = "mapped" /\ svd_failed) =>
        /\ landscape_map = <<>>
        /\ raised = "none"

----------------------------------------------------------------------------
(* Enrichment join: the order of the strategies                             *)

\* the results whose id is the identifier the response gives, stripped
ExactMatches(results, pub_id) ==
    {i \in DOMAIN results : results[i].publication.id = strip(pub_id)}

\* C21: when the identifier the response gives (stripped of whitespace) is
\* exactly the id of a result, the comparison is joined to that very result,
\* whatever other results exist (a result whose id is this id with the prefix
\* "pub." added or removed included): it carries that result's url, year,
\* branches and score.
C21_ExactIdWins ==
    (pc = "analyzed" /\ report # NoReport) =>
        \A k \in DOMAIN report.comparisons :
            LET comp_data == response_text.doc.comparisons[k]
            IN  \A i \in ExactMatches(similarity_results, comp_data.publication_id) :
                    LET sr == similarity_results[i]
                    IN  /\ report.comparisons[k].url = sr.publication.url
                        /\ report.comparisons[k].pub_year = sr.publication.pub_year
                        /\ report.comparisons[k].funding_branches
                                = sr.publication.detected_branches
                        /\ report.comparisons[k].similarity_score = sr.similarity_score

----------------------------------------------------------------------------
(* Ranker: concept coverage, order and truncation                           *)

\* the position of a publication of the list ranked in the results, 0 when
\* it is not among them
position_of(results, pub) ==
    IF \E k \in DOMAIN results : results[k].publication = pub
    THEN CHOOSE k \in DOMAIN results : results[k].publication = pub
    ELSE 0

\* C22: with concepts, for two publications A and B of one candidate set
\* where A has holistic similarity >= 0.60 and concept score <= 0 and B has
\* holistic similarity < 0.30 and a positive concept score, the composite
\* score of A is at least that of B: B is not ranked before A, and A is not
\* filtered out by the threshold while B is kept.
C22_ConceptDoesNotDominate ==
    (Ranked /\ rank_call.concept_scores # None) =>
        LET final == final_scores_of(raw_similarities, rank_call.concept_scores)
            results == ranking.results
        IN  \A a, b \in DOMAIN publications :
                (/\ raw_similarities[a] >= 6000
                 /\ rank_call.concept_scores[a] <= 0
                 /\ raw_similarities[b] < 3000
                 /\ rank_call.concept_scores[b] > 0) =>
                    LET pa == position_of(results, publications[a])
                        pb == position_of(results, publications[b])
                    IN  /\ final[a] >= final[b]
                        /\ (pb # 0 /\ rank_call.top_k >= Len(publications)) => pa # 0
                        /\ (pa # 0 /\ pb # 0 /\ pb < pa) =>
                                results[pa].similarity_score
                                    = results[pb].similarity_score

\* the publications of the list ranked whose composite score passes the
\* threshold, by index
Passing ==
    {i \in DOMAIN publications :
        final_scores_of(raw_similarities, rank_call.concept_scores)[i]
            >= rank_call.threshold}

\* C23: the results are in non-increasing order of composite score; results
\* of equal composite score are in the order of the input list; and the cut
\* to top_k keeps a prefix of that order: min(top_k, number passing the
\* threshold) results are kept, and a publication that passes the threshold
\* and is cut has no greater score than any result kept, and comes after in
\* the input list when the scores are equal.
C23_StableDescendingPrefix ==
    Ranked =>
        LET results == ranking.results
            final == final_scores_of(raw_similarities, rank_call.concept_scores)
            idx(k) == index_of(publications, results[k].publication)
        IN  /\ \A k \in DOMAIN results : results[k].similarity_score = final[idx(k)]
            /\ \A j, k \in DOMAIN results :
                j < k =>
                    /\ results[j].similarity_score >= results[k].similarity_score
                    /\ results[j].similarity_score = results[k].similarity_score
                            => idx(j) < idx(k)
            /\ Len(results) = Min(rank_call.top_k, Cardinality(Passing))
            /\ \A i \in Passing :
                position_of(results, publications[i]) = 0 =>
                    \A k \in DOMAIN results :
                        /\ final[i] <= results[k].similarity_score
                        /\ final[i] = results[k].similarity_score => idx(k) < i

\* two publications of equal composite score pass the threshold, top_k is 1,
\* and the one result is the first publication of the input list
C23_Witness ==
    /\ pc = "ranked"
    /\ Len(publications) = 2
    /\ Passing = {1, 2}
    /\ final_scores_of(raw_similarities, rank_call.concept_scores)[1]
        = final_scores_of(raw_similarities, rank_call.concept_scores)[2]
    /\ rank_call.top_k = 1
    /\ Len(ranking.results) = 1
    /\ ranking.results[1].publication = publications[1]

----------------------------------------------------------------------------
(* Concept extractor: properties                                            *)

\* the concepts after the keywords kept
AddedWords ==
    SubSeq(concepts, Min(Len(proposal.keywords), 20) + 1, Len(concepts))

\* the words of the description and the title, lower-cased
TextWords ==
    LET all == findall_words(lower(or_else(proposal.topic_description,
                                           proposal.abstract)))
               \o findall_words(lower(proposal.title))
    IN  {all[i] : i \in DOMAIN all}

\* C24: the concept extractor returns at most 20 strings, no two of them
\* equal when compared without regard to case; the keywords come first,
\* verbatim and in their order; every word added comes from the title or the
\* description, is no stopword and has at least 3 letters; and the result is
\* empty when there is no keyword and no word to extract.
C24_ConceptContract ==
    pc = "extracted" =>
        /\ Len(concepts) <= 20
        /\ \A i, j \in DOMAIN concepts :
                i # j => lower(concepts[i]) # lower(concepts[j])
        /\ LET n == Min(Len(proposal.keywords), 20)
           IN  SubSeq(concepts, 1, n) = SubSeq(proposal.keywords, 1, n)
        /\ \A i \in DOMAIN AddedWords :
                /\ AddedWords[i] \in TextWords
                /\ AddedWords[i] \notin _STOPWORDS
                /\ Len(AddedWords[i]) >= 3
        /\ (proposal.keywords = <<>>
                /\ \A w \in TextWords : w \in _STOPWORDS \/ Len(w) < 3)
            => concepts = <<>>

\* all of C24 but the comparison of the entries with one another
C24_ButDuplicates ==
    pc = "extracted" =>
        /\ Len(concepts) <= 20
        /\ LET n == Min(Len(proposal.keywords), 20)
           IN  SubSeq(concepts, 1, n) = SubSeq(proposal.keywords, 1, n)
        /\ \A i \in DOMAIN AddedWords :
                /\ AddedWords[i] \in TextWords
                /\ AddedWords[i] \notin _STOPWORDS
                /\ Len(AddedWords[i]) >= 3
        /\ (proposal.keywords = <<>>
                /\ \A w \in TextWords : w \in _STOPWORDS \/ Len(w) < 3)
            => concepts = <<>>

----------------------------------------------------------------------------
(* Confidence: the terms                                                    *)

\* C25: compute_confidence called with an empty result list returns exactly
\* 0.90, whatever the verdict and the ratings handed to it: no base of the
\* verdict and no sample-size bonus enters.
C25_EmptyIsFlat ==
    (pc = "confidence" /\ similarity_results = <<>>) => confidence = 90

\* the empty list with the verdict NEEDS_REVIEW and one medium rating
C25_Witness ==
    /\ pc = "confidence"
    /\ similarity_results = <<>>
    /\ verdict = "NEEDS_REVIEW"
    /\ overlap_ratings = <<"medium">>
    /\ confidence = 90

\* compute_confidence has returned for a list that is not empty
ConfidenceOf(v) ==
    pc = "confidence" /\ similarity_results # <<>> /\ verdict = v

\* the largest confidence compute_confidence returns for a verdict over the
\* lists of results that are not empty and the ratings handed with them
Ceilings ==
    [v \in Verdict |->
        LET outcomes ==
                UNION {UNION {compute_confidence(results, rt, v) :
                                 rt \in RatingArgs(results)} :
                          results \in ResultLists \ {<<>>}}
        IN  CHOOSE c \in outcomes : \A d \in outcomes : d <= c]

\* C26: for the verdict NEEDS_REVIEW the base lies in [0.45, 0.60], does not
\* decrease when the number of medium ratings grows and is the same for every
\* number from 6 on; and NEEDS_REVIEW has the lowest ceiling: the largest
\* confidence returned for it over the lists that are not empty is strictly
\* smaller than the largest returned for each of UNIQUE, AT_RISK and
\* NAVY_UNIQUE.
C26_NeedsReviewBase ==
    ConfidenceOf("NEEDS_REVIEW") =>
        LET base(rt) == base_ticks(similarity_results, rt, "NEEDS_REVIEW")
            n_medium(rt) == n_rated(rt, "medium")
        IN  /\ base(overlap_ratings) >= 40500
            /\ base(overlap_ratings) <= 54000
            /\ \A rt \in RatingArgs(similarity_results) :
                n_medium(rt) >= n_medium(overlap_ratings) =>
                    /\ base(rt) >= base(overlap_ratings)
                    /\ n_medium(overlap_ratings) >= 6 => base(rt) = base(overlap_ratings)
            /\ confidence <= Ceilings["NEEDS_REVIEW"]
            /\ \A v \in Verdict \ {"NEEDS_REVIEW"} :
                Ceilings["NEEDS_REVIEW"] < Ceilings[v]

\* sixteen results, all rated medium: the base is saturated at 0.60, the bonus
\* at 0.05, and the confidence is the ceiling 0.65
C26_Witness ==
    /\ ConfidenceOf("NEEDS_REVIEW")
    /\ Len(similarity_results) = 16
    /\ n_rated(overlap_ratings, "medium") = 16
    /\ base_ticks(similarity_results, overlap_ratings, "NEEDS_REVIEW") = 54000
    /\ confidence = 65
    /\ Ceilings["NEEDS_REVIEW"] = 65

\* every result of the list is rated low
AllLow(results) ==
    \A i \in DOMAIN results :
        compute_overlap_rating(results[i].similarity_score) = "low"

\* for each length, the maximum score and the confidence of every list of
\* that length whose results are all rated low, under the verdict UNIQUE
UniqueOutcomes ==
    [n \in 1..MaxRepeat |->
        UNION {{<<max_score(results), c>> :
                    c \in compute_confidence(results, RateAll(results), "UNIQUE")} :
                  results \in {l \in ResultLists : Len(l) = n /\ AllLow(l)}}]

\* C27: for the verdict UNIQUE and a list that is not empty and whose results
\* are all rated low (maximum score below 0.45), the base lies in
\* [0.60, 0.95], and among lists of the same length the confidence does not
\* increase with the maximum score: a list with a greater maximum score gets
\* no greater confidence.
C27_UniqueGap ==
    (ConfidenceOf("UNIQUE") /\ AllLow(similarity_results)) =>
        /\ base_ticks(similarity_results, overlap_ratings, "UNIQUE") >= 54000
        /\ base_ticks(similarity_results, overlap_ratings, "UNIQUE") <= 85500
        /\ \A other \in UniqueOutcomes[Len(similarity_results)] :
            other[1] > max_score(similarity_results) => other[2] <= confidence

\* one result of score 0.30 gets 0.72; one of score 0.4499 gets 0.60 and one
\* of score 0.0 gets 0.95
C27_Witness ==
    /\ ConfidenceOf("UNIQUE")
    /\ Len(similarity_results) = 1
    /\ max_score(similarity_results) = 3000
    /\ confidence = 72
    /\ compute_confidence(<<make_result(4499, {})>>, <<"low">>, "UNIQUE") = {60}
    /\ compute_confidence(<<make_result(0, {})>>, <<"low">>, "UNIQUE") = {95}

----------------------------------------------------------------------------
(* Paginated search: properties                                             *)

\* the answer to the i-th request of search
Answer(i) == pages[requested[i][2]]

\* the answers that end the pagination: the fetch failed (HTTP error,
\* undecodable body), the page has no docs, or it has docs and no next link
EndsPagination(response) ==
    \/ fetch_fails(response)
    \/ response.kind = "object" /\ response.docs = <<>>
    \/ /\ response.kind = "object"
       /\ response.navigation.kind # "null"
       /\ response.navigation.results_json = NoLink

\* the documents of the first n pages requested, in order
RECURSIVE docs_of_requests(_)
docs_of_requests(n) ==
    IF n = 0 THEN <<>> ELSE docs_of_requests(n - 1) \o Answer(n).docs

\* C28: search fetches at most MAX_PAGES pages for a query and then returns;
\* no request follows a fetch that failed, so a failed page is not requested
\* again; and a failed fetch (HTTP error or body that cannot be decoded), an
\* empty "docs" list or a missing next link ends the pagination without an
\* exception: search returns the publications parsed from the pages fetched.
C28_BoundedPagination ==
    /\ Len(requested) <= MAX_PAGES
    /\ pc = "search_loop" => Len(requested) = page_num
    /\ \A i \in DOMAIN requested :
            EndsPagination(Answer(i)) =>
                /\ i = Len(requested)
                /\ \A j \in DOMAIN requested : j # i => requested[j] # requested[i]
                /\ pc = "search_returned"
                /\ raised = "none"
                /\ scraped = docs_of_requests(Len(requested))
    /\ pc = "search_returned" => scraped = docs_of_requests(Len(requested))

\* the first page has a document and a link, the fetch of the second page
\* fails: search returns the document of the first page
C28_Witness ==
    /\ pc = "search_returned"
    /\ Len(requested) = 2
    /\ ~EndsPagination(Answer(1))
    /\ fetch_fails(Answer(2))
    /\ scraped = Answer(1).docs
    /\ scraped # <<>>
    /\ raised = "none"

----------------------------------------------------------------------------
(* Entry points: properties                                                 *)

\* C29: the CLI entry point main and the HTTP handler _run_explore complete
\* normally after a pipeline run: taking the value run_pipeline returns, on
\* its zero-publication path and on its normal path, raises nothing in them
\* (main then returns 0 for UNIQUE and NAVY_UNIQUE, 1 for AT_RISK and
\* NEEDS_REVIEW).
C29_CallersComplete ==
    /\ pc = "done" => ~unpack_raises(run_pipeline_returns, 3)
    /\ pc \notin {"main_raised", "run_explore_raised"}

----------------------------------------------------------------------------
(* Query generation: properties                                             *)

\* the description of the proposal and the number of its words
DescriptionOf(p) == or_else(p.topic_description, p.abstract)
DescriptionWords(p) == Len(split(DescriptionOf(p)))

\* the queries of a strategy
QueriesOf(strategy) ==
    {i \in DOMAIN queries : queries[i].strategy = strategy}

DescriptionQueried(p) ==
    /\ DescriptionOf(p) # <<>>
    /\ lower(strip(DescriptionOf(p))) # lower(strip(p.title))

====
